---- MODULE Spec2Model ----
(***************************************************************************)
(* A model of the FreeNAS CLI language core (freenas/cli/repl.py and       *)
(* freenas/cli/parser.py): the tree-walking evaluator MainLoop.eval, the   *)
(* statement driver MainLoop.process, the environment chain, the lexer's   *)
(* numeric tokens and the expression grammar with unparse.                 *)
(*                                                                         *)
(* Python values are tagged records; AST nodes are records carrying the    *)
(* class name in the field k; an exception is a record carried in the exc  *)
(* field of an evaluation result instead of a host-level unwinding.        *)
(***************************************************************************)
EXTENDS Integers, Sequences, FiniteSets, TLC

VARIABLES
    path,             \* MainLoop.path: namespaces from the root to the cwd
    prev_path,        \* MainLoop.prev_path
    start_from_root,  \* MainLoop.start_from_root
    envs,             \* heap of Environment objects; envs[1] is Context.global_env
    call_stack,       \* Context.call_stack
    trace,            \* history: what the last processed line resolved and ran
    output,           \* history: what the last processed line printed
    outcome,          \* history: how the last process() call ended
    nlines,           \* number of lines processed so far
    last,             \* history: the last line, the paths before it and the
                      \* path its statements were evaluated from
    lexin, lexout,    \* lexer: the input characters and the token produced
    lexeof,           \* lexer: history of t_eof: the tokens before it, and
                      \* whether it asked the caller for one more line
    ptext, past, ptext2, past2, pstage,  \* parser: text, AST, unparsed text, second AST
    output_lock,      \* output.output_lock: the thread that holds it, or "free"
    event_divert,     \* Context.event_divert
    event_queue,      \* Context.event_queue
    main_thread,      \* the thread of MainLoop.repl: where it is
    callback_thread,  \* the thread of the RPC connection's event callback
    subscriber_thread, \* the same thread running an entity subscriber's on_delete
    dispatcher,       \* the server: the state of each task, the events on their way
    submit,           \* the frame of Context.submit_task on the main thread
    task_callbacks,   \* Context.task_callbacks: the task ids with a callback
    callback_calls,   \* history: the calls of task callbacks, (id, state)
    sort_in, sort_out \* sort_args: the evaluated parameters and the three results

\* the variables shared by the main thread and the thread of the connection
threads == <<output_lock, event_divert, event_queue, main_thread, callback_thread,
             subscriber_thread, dispatcher, submit, task_callbacks, callback_calls>>

vars == <<path, prev_path, start_from_root, envs, call_stack, trace, output,
          outcome, nlines, last, lexin, lexout, lexeof, ptext, past, ptext2,
          past2, pstage, threads, sort_in, sort_out>>

-----------------------------------------------------------------------------
(* Bounds of the model *)

MaxLines == 2
\* the longest parameter list handed to sort_args
MaxArgs == 3

-----------------------------------------------------------------------------
(* Python values *)

NoneV == [t |-> "none"]
IntV(n) == [t |-> "int", n |-> n]
StrV(s) == [t |-> "str", s |-> s]
BoolV(b) == [t |-> "bool", b |-> b]
ListV(xs) == [t |-> "list", xs |-> xs]
\* a Namespace object of the tree; names are unique in the modelled tree
NsV(name) == [t |-> "ns", s |-> name]
\* a Command object: its name, the namespace whose commands() holds it
\* ("builtin" for MainLoop.builtin_commands)
CmdV(name, ns) == [t |-> "cmd", s |-> name, ns |-> ns]
\* the tuple a BinaryParameter evaluates to
TupleV(l, op, r) == [t |-> "tuple", left |-> l, op |-> op, right |-> r]
\* a VariableStore.Variable returned for a CLI configuration variable
CfgV(name) == [t |-> "cfgvar", s |-> name]
\* a Table returned by a list command
TableV(flt, opts) == [t |-> "table", filter |-> flt, options |-> opts]

EmptyMap == [x \in {} |-> NoneV]
Last(s) == s[Len(s)]
Front(s) == SubSeq(s, 1, Len(s) - 1)

\* Python truth value of a value, as `if expr` and `if ret` take it
Truthy(v) ==
    CASE v.t = "none" -> FALSE
      [] v.t = "bool" -> v.b
      [] v.t = "int" -> v.n # 0
      [] v.t = "str" -> v.s # ""
      [] v.t = "list" -> v.xs # <<>>
      [] OTHER -> TRUE

-----------------------------------------------------------------------------
(* AST nodes, parser.py:60-81 *)

Symbol(name) == [k |-> "Symbol", name |-> name]
Literal(value, type) == [k |-> "Literal", value |-> value, type |-> type]
UnaryExpr(expr, op) == [k |-> "UnaryExpr", expr |-> expr, op |-> op]
BinaryExpr(left, op, right) ==
    [k |-> "BinaryExpr", left |-> left, op |-> op, right |-> right]
BinaryParameter(left, op, right) ==
    [k |-> "BinaryParameter", left |-> left, op |-> op, right |-> right]
ExpressionExpansion(expr) == [k |-> "ExpressionExpansion", expr |-> expr]
PipeExpr(left, right) == [k |-> "PipeExpr", left |-> left, right |-> right]
FunctionCall(name, args) == [k |-> "FunctionCall", name |-> name, args |-> args]
CommandCall(args) == [k |-> "CommandCall", args |-> args]
IfStatement(expr, body, else_body) ==
    [k |-> "IfStatement", expr |-> expr, body |-> body, else_body |-> else_body]
AssignmentStatement(name, expr) ==
    [k |-> "AssignmentStatement", name |-> name, expr |-> expr]
ForStatement(var, expr, body) ==
    [k |-> "ForStatement", var |-> var, expr |-> expr, body |-> body]
WhileStatement(expr, body) == [k |-> "WhileStatement", expr |-> expr, body |-> body]
UndefStatement(name) == [k |-> "UndefStatement", name |-> name]
ReturnStatement(expr) == [k |-> "ReturnStatement", expr |-> expr]
BreakStatement == [k |-> "BreakStatement"]
FunctionDefinition(name, args, body) ==
    [k |-> "FunctionDefinition", name |-> name, args |-> args, body |-> body]
Redirection(body, rpath) == [k |-> "Redirection", body |-> body, path |-> rpath]
\* the bare string '..' that p_command_item_2 puts in a CommandCall for UP
UpItem == [k |-> "UP"]

IntLit(n) == Literal(IntV(n), "int")
StrLit(s) == Literal(StrV(s), "str")
BoolLit(b) == Literal(BoolV(b), "bool")
NoneLit == Literal(NoneV, "none")
ListLit(items) == Literal(items, "list")

-----------------------------------------------------------------------------
(* The namespace tree the session runs against: root holds the namespaces  *)
(* a and u, a holds b, b exposes the command c, and u (an entity           *)
(* namespace) exposes the list command show.                               *)

Root == "root"
\* Namespace.namespaces(): the children, in order
namespaces(ns) ==
    CASE ns = "root" -> <<"a", "u">>
      [] ns = "a" -> <<"b">>
      [] OTHER -> <<>>
\* Namespace.commands(): the names of the commands the namespace exposes
commands(ns) ==
    CASE ns = "b" -> {"c"}
      [] ns = "u" -> {"show"}
      [] OTHER -> {}
\* MainLoop.builtin_commands: pipe commands and base builtins (a selection)
pipe_commands == {"search", "sort", "limit"}
builtin_commands == {"exit"} \cup pipe_commands
\* the class of a command object
IsPipeCommand(cmd) == cmd.ns = "builtin" /\ cmd.s \in pipe_commands
IsFilteringCommand(cmd) == cmd.ns # "builtin" /\ cmd.s = "show"
\* VariableStore.variables: the names of the CLI configuration variables
ConfigVariables == {"debug", "timeout"}
\* functions.functions: names of the built-in function table
builtin_functions == {"print"}
\* Namespace.on_leave: the base class lets every namespace be left
on_leave(ns) == TRUE

SeqToSet(s) == {s[i] : i \in 1..Len(s)}

-----------------------------------------------------------------------------
(* Exceptions, FlowControlInstruction and evaluation results *)

NoExc == [type |-> "none"]
Exc(type, msg) == [type |-> type, msg |-> msg]
\* FlowControlInstruction(type, payload), repl.py:552-555
FlowV(type, payload) == [t |-> "flow", type |-> type, payload |-> payload]
\* a raised FlowControlInstruction
FlowExc(flow) == [type |-> "FlowControlInstruction", flow |-> flow]
\* no serialize_filter dict passed
NoSF == [none |-> TRUE]
\* the dict PipeExpr creates for the serialize_filter pass
NewSF == [filter |-> <<>>, params |-> EmptyMap]

Res(st, ret, exc, sf) == [st |-> st, ret |-> ret, exc |-> exc, sf |-> sf]
Ok(st, ret) == Res(st, ret, NoExc, NoSF)
Raise(st, exc) == Res(st, NoneV, exc, NoSF)
Raised(r) == r.exc.type # "none"
Log(st, ev) == [st EXCEPT !.trace = Append(@, ev)]
Out(st, msg) == [st EXCEPT !.output = Append(@, msg)]

-----------------------------------------------------------------------------
(* Environment, repl.py:617-640 *)

\* Environment.Variable(value): a mutable cell; some bindings are stored
\* without a cell (loop variables, functions), so an entry records which
Variable(v) == [wrapped |-> TRUE, v |-> v]
Raw(v) == [wrapped |-> FALSE, v |-> v]
\* Environment(context, outer, iterable)
Environment(outer, binds) == [outer |-> outer, vars |-> binds]
\* bool(env): an Environment is a dict, so an empty one is false
EnvTruthy(es, e) == e # 0 /\ DOMAIN es[e].vars # {}
\* env[name] = entry
SetItem(es, e, name, entry) ==
    [es EXCEPT ![e].vars = (name :> entry) @@ @]
\* del env[name]
DelItem(es, e, name) ==
    [es EXCEPT ![e].vars = [n \in (DOMAIN @) \ {name} |-> @[n]]]

RECURSIVE FindEnv(_, _, _)
\* Environment.find, the walk: the environment that holds var, 0 when the
\* walk ends without one.  The walk follows `outer` only while `if self.outer`
\* is true, that is while the outer environment is a non-empty dict.
FindEnv(es, e, var) ==
    IF var \in DOMAIN es[e].vars THEN e
    ELSE IF EnvTruthy(es, es[e].outer) THEN FindEnv(es, es[e].outer, var)
    ELSE 0

\* Environment.find: [hit, entry]; hit is "env", "builtin" or "KeyError"
find(es, e, var) ==
    LET h == FindEnv(es, e, var) IN
    IF h # 0 THEN [hit |-> "env", env |-> h, entry |-> es[h].vars[var]]
    ELSE IF var \in builtin_functions
         THEN [hit |-> "builtin", env |-> 0,
               entry |-> Raw([t |-> "builtinfunc", s |-> var])]
         ELSE [hit |-> "KeyError", env |-> 0, entry |-> Raw(NoneV)]

-----------------------------------------------------------------------------
(* Helpers of the evaluator *)

\* MainLoop.find_in_scope, repl.py:755-773: the builtin commands first, then
\* the child namespaces of cwd, then its commands; None when nothing matches
find_in_scope(token, cwd) ==
    IF token \in builtin_commands THEN CmdV(token, "builtin")
    ELSE IF token \in SeqToSet(namespaces(cwd)) THEN NsV(token)
    ELSE IF token \in commands(cwd) THEN CmdV(token, cwd)
    ELSE NoneV

RECURSIVE sort_args_from(_, _, _, _)
sort_args_from(args, positional, kwargs, opargs) ==
    IF args = <<>> THEN
        [positional |-> positional, kwargs |-> kwargs, opargs |-> opargs]
    ELSE LET i == Head(args) IN
        IF i.t = "tuple" THEN
            IF i.op = "="
            THEN sort_args_from(Tail(args), positional,
                                (i.left :> i.right) @@ kwargs, opargs)
            ELSE sort_args_from(Tail(args), positional, kwargs, Append(opargs, i))
        ELSE sort_args_from(Tail(args), Append(positional, i), kwargs, opargs)

\* sort_args with the test `op == '='` lost: every (name, op, value)
\* parameter is an operator argument
sort_args_without_kwargs(args) ==
    [positional |-> SelectSeq(args, LAMBDA i : i.t # "tuple"),
     kwargs |-> EmptyMap,
     opargs |-> SelectSeq(args, LAMBDA i : i.t = "tuple")]

\* sort_args whose kwargs keep the value of the first parameter of a name
sort_args_first_seen(args) ==
    LET sorted == sort_args_from(args, <<>>, EmptyMap, <<>>)
        backwards == sort_args_from([j \in 1..Len(args) |-> args[Len(args) + 1 - j]],
                                    <<>>, EmptyMap, <<>>)
    IN  [sorted EXCEPT !.kwargs = backwards.kwargs]

\* sort_args, repl.py:120-135
sort_args(args) == sort_args_from(args, <<>>, EmptyMap, <<>>)

\* convert_to_literals.conv, repl.py:139-149
conv(t) ==
    IF t.k = "Symbol" THEN Literal(StrV(t.name), "str")
    ELSE IF t.k = "BinaryParameter" THEN
        [t EXCEPT !.right = IF @.k = "Symbol" THEN Literal(StrV(@.name), "str") ELSE @]
    ELSE t

\* convert_to_literals, repl.py:138-151
convert_to_literals(tokens) == [i \in 1..Len(tokens) |-> conv(tokens[i])]

-----------------------------------------------------------------------------
(* functions.operators: the built-in operator table the evaluator applies  *)
(* to evaluated operands.  Numbers and booleans are numeric operands.      *)

IsNum(v) == v.t \in {"int", "bool"}
Num(v) == IF v.t = "bool" THEN (IF v.b THEN 1 ELSE 0) ELSE v.n
ValEq(l, r) == IF IsNum(l) /\ IsNum(r) THEN Num(l) = Num(r) ELSE l = r

\* builtin_operators[op](left, right): [v, err]
ApplyBinary(op, l, r) ==
    CASE op \in {"+", "-", "*"} ->
           IF IsNum(l) /\ IsNum(r)
           THEN [v |-> IntV(CASE op = "+" -> Num(l) + Num(r)
                              [] op = "-" -> Num(l) - Num(r)
                              [] op = "*" -> Num(l) * Num(r)),
                 err |-> NoExc]
           ELSE [v |-> NoneV, err |-> Exc("TypeError", op)]
      [] op \in {">", "<", ">=", "<="} ->
           IF IsNum(l) /\ IsNum(r)
           THEN [v |-> BoolV(CASE op = ">" -> Num(l) > Num(r)
                               [] op = "<" -> Num(l) < Num(r)
                               [] op = ">=" -> Num(l) >= Num(r)
                               [] op = "<=" -> Num(l) <= Num(r)),
                 err |-> NoExc]
           ELSE [v |-> NoneV, err |-> Exc("TypeError", op)]
      [] op = "==" -> [v |-> BoolV(ValEq(l, r)), err |-> NoExc]
      [] op = "!=" -> [v |-> BoolV(~ValEq(l, r)), err |-> NoExc]
      [] op = "and" -> [v |-> IF Truthy(l) THEN r ELSE l, err |-> NoExc]
      [] op = "or" -> [v |-> IF Truthy(l) THEN l ELSE r, err |-> NoExc]
      [] OTHER -> [v |-> NoneV, err |-> Exc("KeyError", op)]

\* builtin_operators[op](expr): [v, err]
ApplyUnary(op, e) ==
    CASE op = "not" -> [v |-> BoolV(~Truthy(e)), err |-> NoExc]
      [] op = "-" -> IF IsNum(e) THEN [v |-> IntV(0 - Num(e)), err |-> NoExc]
                     ELSE [v |-> NoneV, err |-> Exc("TypeError", op)]
      [] OTHER -> [v |-> NoneV, err |-> Exc("KeyError", op)]

-----------------------------------------------------------------------------
(* Navigation, repl.py:710-729 *)

\* MainLoop.cd
cd(st, ns) ==
    IF ~on_leave(Last(st.path)) THEN st
    ELSE Log([st EXCEPT !.prev_path = st.path, !.path = Append(st.path, ns)],
             [ev |-> "on_enter", ns |-> ns])

\* MainLoop.cd_up
cd_up(st) ==
    IF ~on_leave(Last(st.path)) THEN st
    ELSE LET p == IF Len(st.path) > 1 THEN Front(st.path) ELSE st.path IN
         Log([st EXCEPT !.prev_path = st.path, !.path = p],
             [ev |-> "on_enter", ns |-> Last(p)])

RECURSIVE cd_all(_, _)
\* the loop that enters the first namespace of the statement's path only
cd_all_first_only(st, pth) ==
    IF pth = <<>> THEN st ELSE cd(st, Head(pth))

\* `for i in path: self.cd(i)`, repl.py:932-933
cd_all(st, pth) ==
    IF pth = <<>> THEN st ELSE cd_all(cd(st, Head(pth)), Tail(pth))

-----------------------------------------------------------------------------
(* Commands: what run() of the modelled command objects does *)

Absent == [t |-> "absent"]
RunEvent(cmd, a, mode, filtering, input) ==
    [ev |-> "run", cmd |-> cmd.s, ns |-> cmd.ns, args |-> a.positional,
     kwargs |-> a.kwargs, opargs |-> a.opargs, mode |-> mode,
     filtering |-> filtering, input |-> input]

\* property mappings of the entity namespace u
PropertyMappings == {"name", "id"}

\* BaseListCommand.__map_filter_properties, namespace.py:826-843
map_filter_op(op) == IF op = "==" THEN "=" ELSE IF op = "~=" THEN "~" ELSE op
map_filter_properties(flt) ==
    [i \in 1..Len(flt) |-> TupleV(flt[i].left, map_filter_op(flt[i].op), flt[i].right)]

\* the `sort` option BaseListCommand.run builds, namespace.py:855-869
SortOption(keys) == [i \in 1..Len(keys) |-> keys[i].s]

\* BaseListCommand.run, namespace.py:845-882: the options and params it
\* passes to the namespace's query, which returns the Table
BaseListCommand_run(st, cmd, a, filtering) ==
    LET st1 == Log(st, RunEvent(cmd, a, "filtering", filtering, Absent)) IN
    IF st.orc # "ok" THEN Raise(st1, Exc(st.orc, "show"))
    ELSE IF filtering = NoSF THEN
        LET st2 == Log(st1, [ev |-> "query", ns |-> cmd.ns, params |-> <<>>,
                             options |-> EmptyMap]) IN
        Ok(st2, TableV(<<>>, EmptyMap))
    ELSE
        LET ps == filtering.params
            bad == {k \in DOMAIN ps : k \notin {"limit", "sort"}}
            badsort == IF "sort" \in DOMAIN ps
                       THEN {i \in 1..Len(ps["sort"]) :
                                ps["sort"][i].s \notin PropertyMappings}
                       ELSE {}
            badflt == {i \in 1..Len(filtering.filter) :
                          filtering.filter[i].left \notin PropertyMappings}
            options == [k \in DOMAIN ps |->
                           IF k = "sort" THEN SortOption(ps[k]) ELSE ps[k]]
            params == map_filter_properties(filtering.filter)
        IN
        IF bad # {} \/ badsort # {} THEN Raise(st1, Exc("CommandException", "Unknown field"))
        ELSE IF badflt # {} THEN Raise(st1, Exc("AttributeError", "get_mapping"))
        ELSE Ok(Log(st1, [ev |-> "query", ns |-> cmd.ns, params |-> params,
                          options |-> options]),
                TableV(params, options))

\* PipeCommand.serialize_filter of the search, sort and limit pipe commands:
\* the predicates a stage contributes to the pushed-down query
serialize_filter(cmd, a) ==
    CASE cmd.s = "search" ->
           [filter |-> [i \in 1..Len(a.opargs) |->
                           TupleV(a.opargs[i].left, map_filter_op(a.opargs[i].op),
                                  a.opargs[i].right)],
            params |-> EmptyMap]
      [] cmd.s = "sort" -> [filter |-> <<>>, params |-> ("sort" :> a.positional)]
      [] cmd.s = "limit" ->
           [filter |-> <<>>,
            params |-> IF a.positional = <<>> THEN EmptyMap
                       ELSE ("limit" :> a.positional[1])]
      [] OTHER -> [filter |-> <<>>, params |-> EmptyMap]

\* PipeCommand.run without the wrapper: the body runs whatever the input
PipeCommand_run_unwrapped(st, cmd, a, input) ==
    Ok(Log(st, RunEvent(cmd, a, "input", NoSF, input)),
       [t |-> "piped", by |-> cmd.s, of |-> input])

\* PipeCommand.run through the wrapper of PipeCommand.__new__,
\* namespace.py:140-153: a stage whose input is None returns None without
\* running its body; otherwise the stage's body receives the input
PipeCommand_run(st, cmd, a, input) ==
    IF input = NoneV THEN Ok(st, NoneV)
    ELSE Ok(Log(st, RunEvent(cmd, a, "input", NoSF, input)),
            [t |-> "piped", by |-> cmd.s, of |-> input])

\* Command.run of the other commands: exit ends the process
\* (src/commands.py:242-243); c is an external command whose outcome the
\* oracle st.orc gives
Command_run(st, cmd, a) ==
    LET st1 == Log(st, RunEvent(cmd, a, "plain", NoSF, Absent)) IN
    IF cmd.ns = "builtin" /\ cmd.s = "exit" THEN Raise(st1, Exc("SystemExit", "0"))
    ELSE IF st.orc # "ok" THEN Raise(st1, Exc(st.orc, cmd.s))
    ELSE Ok(st1, StrV("done"))

-----------------------------------------------------------------------------
(* The evaluator, repl.py:775-1038.  eval returns Res(st, ret, exc, sf):   *)
(* the session state after the call, the value returned, the exception     *)
(* raised (NoExc when it returned) and the serialize_filter dict as the    *)
(* call left it.                                                           *)

\* `name = <value>`: the rest of the code, K, runs with the value bound
Bind(v, K(_)) == K(v)
\* `name = <call>` where an exception raised by the call leaves the
\* enclosing code: K runs with the state and the value the call returned
Then(r, K(_, _)) == IF Raised(r) THEN r ELSE K(r.st, r.ret)

\* Every recursive call of the evaluator goes through eval: the loops of
\* eval_block, eval_items, for_loop, while_loop and Function.__call__ are
\* entered through the operators below, which hand eval a node naming them.
RECURSIVE eval(_, _, _, _, _, _, _)

\* `self.eval(token, env)`
eval1(token, env, st) == eval(token, env, <<>>, NoSF, NoneV, FALSE, st)
call_eval_items(items, env, st, acc) ==
    eval1([k |-> "eval_items", items |-> items, acc |-> acc], env, st)
call_eval_block(block, env, allow_break, st) ==
    eval1([k |-> "eval_block", block |-> block, allow_break |-> allow_break], env, st)
call_Function(func, args, st) ==
    eval1([k |-> "Function_call", func |-> func, args |-> args], 0, st)
call_for_loop(items, token, local_env, st) ==
    eval1([k |-> "for_loop", items |-> items, token |-> token], local_env, st)
call_while_loop(token, env, local_env, st) ==
    eval1([k |-> "while_loop", token |-> token, local_env |-> local_env], env, st)

\* `Environment(self.context, outer=env)`: the state with the new
\* environment, whose index is Len(st.envs) + 1
NewEnv(st, outer, binds) ==
    [st EXCEPT !.envs = Append(@, Environment(outer, binds))]

\* `[self.eval(i, env) for i in items]`: the values are returned as a list
eval_items(items, env, st, acc) ==
    IF items = <<>> THEN Ok(st, ListV(acc))
    ELSE Then(eval1(Head(items), env, st), LAMBDA s, v :
             call_eval_items(Tail(items), env, s, Append(acc, v)))

\* MainLoop.eval_block, repl.py:775-786
eval_block(block, env, allow_break, st) ==
    IF block = <<>> THEN Ok(st, NoneV)
    ELSE Then(eval1(Head(block), env, st), LAMBDA s, ret :
             IF ret.t = "flow" THEN
                 IF ret.type = "BREAK" /\ ~allow_break
                 THEN Raise(s, Exc("SyntaxError", "'break' cannot be used in this block"))
                 ELSE Raise(s, FlowExc(ret))
             ELSE call_eval_block(Tail(block), env, allow_break, s))

\* `except FlowControlInstruction as f` around the body of a loop,
\* repl.py:885-891: BREAK ends the loop, anything else is raised again
IsFlow(r, type) ==
    r.exc.type = "FlowControlInstruction" /\ r.exc.flow.type = type

\* Function.__call__ that runs the body in the environment of the definition
\* itself, the parameters bound there
Function_call_shares_env(func, args, st) ==
    LET n == IF Len(func.params) < Len(args) THEN Len(func.params) ELSE Len(args)
        binds == [nm \in {func.params[i] : i \in 1..n} |->
                     Variable(args[CHOOSE i \in 1..n : func.params[i] = nm])]
    IN  Bind(call_eval_block(func.body, func.env, FALSE,
                 [st EXCEPT !.envs[func.env].vars =
                     [nm \in DOMAIN binds \cup DOMAIN @ |->
                         IF nm \in DOMAIN binds THEN binds[nm] ELSE @[nm]]]),
             LAMBDA r : IF IsFlow(r, "RETURN") THEN Ok(r.st, r.exc.flow.payload)
                        ELSE IF Raised(r) THEN r
                        ELSE Ok(r.st, NoneV))

\* Function.__call__ that ends at a RETURN without handing on its payload
Function_call_drops_payload(func, args, st) ==
    LET n == IF Len(func.params) < Len(args) THEN Len(func.params) ELSE Len(args)
        binds == [nm \in {func.params[i] : i \in 1..n} |->
                     Variable(args[CHOOSE i \in 1..n : func.params[i] = nm])]
    IN  Bind(call_eval_block(func.body, Len(st.envs) + 1, FALSE,
                             NewEnv(st, func.env, binds)),
             LAMBDA r : IF IsFlow(r, "RETURN") THEN Ok(r.st, NoneV)
                        ELSE IF Raised(r) THEN r
                        ELSE Ok(r.st, NoneV))

\* Function.__call__ that binds the parameters left without an argument to None
Function_call_pads_None(func, args, st) ==
    LET n == IF Len(func.params) < Len(args) THEN Len(func.params) ELSE Len(args)
        binds == [nm \in {func.params[i] : i \in 1..Len(func.params)} |->
                     LET i == CHOOSE j \in 1..Len(func.params) : func.params[j] = nm
                     IN  Variable(IF i <= n THEN args[i] ELSE NoneV)]
    IN  Bind(call_eval_block(func.body, Len(st.envs) + 1, FALSE,
                             NewEnv(st, func.env, binds)),
             LAMBDA r : IF IsFlow(r, "RETURN") THEN Ok(r.st, r.exc.flow.payload)
                        ELSE IF Raised(r) THEN r
                        ELSE Ok(r.st, NoneV))

\* Function.__call__, repl.py:584-592
Function_call(func, args, st) ==
    LET n == IF Len(func.params) < Len(args) THEN Len(func.params) ELSE Len(args)
        binds == [nm \in {func.params[i] : i \in 1..n} |->
                     Variable(args[CHOOSE i \in 1..n : func.params[i] = nm])]
    IN  Bind(call_eval_block(func.body, Len(st.envs) + 1, FALSE,
                             NewEnv(st, func.env, binds)),
             LAMBDA r : IF IsFlow(r, "RETURN") THEN Ok(r.st, r.exc.flow.payload)
                        ELSE IF Raised(r) THEN r
                        ELSE Ok(r.st, NoneV))

\* the loop with `continue` in place of `return` in its BREAK handler: the
\* loop goes on with its next item
for_loop_break_continues(items, token, local_env, st) ==
    IF items = <<>> THEN Ok(st, NoneV)
    ELSE Bind(call_eval_block(token.body, local_env, TRUE,
                 [st EXCEPT !.envs = SetItem(@, local_env, token.var, Raw(Head(items)))]),
              LAMBDA r : IF Raised(r) /\ ~IsFlow(r, "BREAK") THEN r
                         ELSE call_for_loop(Tail(items), token, local_env, r.st))

\* the single-variable loop of ForStatement, repl.py:883-891
for_loop(items, token, local_env, st) ==
    IF items = <<>> THEN Ok(st, NoneV)
    ELSE Bind(call_eval_block(token.body, local_env, TRUE,
                 [st EXCEPT !.envs = SetItem(@, local_env, token.var, Raw(Head(items)))]),
              LAMBDA r : IF IsFlow(r, "BREAK") THEN Ok(r.st, NoneV)
                         ELSE IF Raised(r) THEN r
                         ELSE call_for_loop(Tail(items), token, local_env, r.st))

\* the loop of WhileStatement, repl.py:897-908
while_loop(token, env, local_env, st) ==
    Then(eval1(token.expr, env, st), LAMBDA s, expr :
        IF ~Truthy(expr) THEN Ok(s, NoneV)
        ELSE Bind(call_eval_block(token.body, local_env, TRUE, s),
                  LAMBDA r : IF IsFlow(r, "BREAK") THEN Ok(r.st, NoneV)
                             ELSE IF Raised(r) THEN r
                             ELSE call_while_loop(token, env, local_env, r.st)))

\* CallStackEntry(func.name, args, ...) appended to context.call_stack
push_call(st, name, args) ==
    [st EXCEPT !.call_stack = Append(@, [func |-> name, args |-> args])]

\* FunctionCall, repl.py:986-995
eval_FunctionCall(token, env, st) ==
    Then(call_eval_items(token.args, env, st, <<>>), LAMBDA s, args :
        LET f == find(s.envs, env, token.name) IN
        IF f.hit = "KeyError" THEN Raise(s, Exc("KeyError", token.name))
        ELSE IF ~f.entry.wrapped /\ ~Truthy(f.entry.v)
             THEN Raise(s, Exc("SyntaxError", "Function not found"))
        ELSE IF f.entry.wrapped \/ f.entry.v.t \notin {"func", "builtinfunc"}
             THEN Raise(s, Exc("AttributeError", "name"))
        ELSE Then(IF f.entry.v.t = "func"
                  THEN call_Function(f.entry.v, args.xs,
                                     push_call(s, f.entry.v.s, args.xs))
                  ELSE Ok(Out(push_call(s, f.entry.v.s, args.xs),
                              [msg |-> "print", args |-> args.xs]), NoneV),
                  LAMBDA s2, result :
                      Ok([s2 EXCEPT !.call_stack = Front(@)], result)))

\* the `finally` of CommandCall, repl.py:977-981
set_success(r, env) ==
    [r EXCEPT !.st.envs = SetItem(@, env, "_success", Variable(BoolV(~Raised(r))))]

\* `if isinstance(item, (str, int, bool)): item = self.find_in_scope(...)`,
\* repl.py:950-951; find_in_scope finds nothing under the text of a number
scope_item(item, cwd) ==
    CASE item.t = "str" -> find_in_scope(item.s, cwd)
      [] item.t \in {"int", "bool"} -> NoneV
      [] OTHER -> item

\* `if isinstance(item, PipeCommand)`, repl.py:964-974: the stage adds its
\* predicates to the serialize_filter dict when there is one, then runs
run_PipeCommand(item, a, sf, input_data, st) ==
    LET got == serialize_filter(item, a) IN
    [PipeCommand_run(IF sf = NoSF THEN st
                     ELSE Log(st, [ev |-> "serialize_filter", cmd |-> item.s]),
                     item, a, input_data)
       EXCEPT !.sf = IF sf = NoSF THEN sf
                      ELSE [filter |-> sf.filter \o got.filter,
                            params |-> got.params @@ sf.params]]

\* `if isinstance(item, Command)`, repl.py:957-976
run_Command(item, cwd, rest, env, sf, input_data, dry_run, st) ==
    Then(call_eval_items(convert_to_literals(rest), env, st, <<>>), LAMBDA s, vs :
        IF dry_run
        THEN Ok(s, [t |-> "dry", cmd |-> item, cwd |-> cwd, a |-> sort_args(vs.xs)])
        ELSE IF IsPipeCommand(item)
             THEN run_PipeCommand(item, sort_args(vs.xs), sf, input_data, s)
        ELSE IF IsFilteringCommand(item)
             THEN BaseListCommand_run(s, item, sort_args(vs.xs), NoSF)
        ELSE Command_run(s, item, sort_args(vs.xs)))

\* CommandCall, repl.py:926-984; args is what is left of token.args
eval_CommandCall(args, env, pth, sf, input_data, dry_run, st) ==
    IF args = <<>> THEN set_success(Ok(cd_all(st, pth), NoneV), env)
    ELSE IF Head(args).k = "UP" THEN
        IF pth = <<>> THEN set_success(Ok(cd_up(st), NoneV), env)
        \* one level up; neither dry_run nor the filter is passed on
        ELSE set_success(eval(CommandCall(Tail(args)), env, Front(pth),
                              NoSF, NoneV, FALSE, st), env)
    ELSE
    LET top == IF Head(args).k = "Literal" THEN Symbol(Head(args).value.s)
               ELSE Head(args)
        cwd == IF pth # <<>> THEN Last(pth) ELSE Last(st.path)
    IN
    Bind(eval(top, env, pth, NoSF, NoneV, FALSE, st), LAMBDA i :
        IF Raised(i) THEN set_success(i, env)
        ELSE LET item == scope_item(i.ret, cwd) IN
        IF item.t = "ns" THEN
            \* item.on_enter(), then one level down; dry_run is passed on
            set_success(eval(CommandCall(Tail(args)), env, Append(pth, item.s),
                             NoSF, NoneV, dry_run,
                             Log(i.st, [ev |-> "on_enter", ns |-> item.s])), env)
        ELSE IF item.t = "cmd" THEN
            set_success(run_Command(item, cwd, Tail(args), env, sf, input_data,
                                    dry_run, i.st), env)
        ELSE
            \* the try block ends without a return: repl.py:983-984
            Raise([i.st EXCEPT !.envs =
                        SetItem(@, env, "_success", Variable(BoolV(FALSE)))],
                  IF top.k = "Symbol"
                  THEN Exc("SyntaxError", "Command or namespace not found")
                  ELSE Exc("AttributeError", "name")))

\* the serialize_filter dict after a call that was handed the dict sf: the
\* dict is one object, updated in place by the stages that were reached
sf_after(r, sf) == IF r.sf = NoSF THEN sf ELSE r.sf

\* the left side run without the predicates the pass collected
run_piped_unfiltered(d, f, input_data) ==
    IF IsFilteringCommand(d.cmd) THEN BaseListCommand_run(f.st, d.cmd, d.a, NoSF)
    ELSE IF IsPipeCommand(d.cmd) THEN PipeCommand_run(f.st, d.cmd, d.a, input_data)
    ELSE Command_run(f.st, d.cmd, d.a)

\* `cmd.run(...)` of the left side of a pipe, repl.py:1018-1026; f is the
\* result of the serialize_filter pass
run_piped(d, f, input_data) ==
    IF IsFilteringCommand(d.cmd)
    THEN BaseListCommand_run(f.st, d.cmd, d.a, sf_after(f, NewSF))
    ELSE IF IsPipeCommand(d.cmd) THEN PipeCommand_run(f.st, d.cmd, d.a, input_data)
    ELSE Command_run(f.st, d.cmd, d.a)

\* PipeExpr that ends with the filtered run when the left command is a
\* FilteringCommand: the right side is not evaluated over its result
eval_PipeExpr_filtered_only(token, env, pth, sf, input_data, st) ==
    IF sf # NoSF THEN
        Bind(eval(token.left, env, pth, sf, NoneV, FALSE, st), LAMBDA l :
            IF Raised(l) THEN l
            ELSE Bind(eval(token.right, env, pth, sf_after(l, sf), NoneV, FALSE, l.st),
                      LAMBDA r : IF Raised(r) THEN r
                                 ELSE Res(r.st, NoneV, NoExc,
                                          sf_after(r, sf_after(l, sf)))))
    ELSE
    Then(eval(token.left, env, pth, NoSF, NoneV, TRUE, st), LAMBDA s, d :
        IF d.t # "dry" THEN Raise(s, Exc("TypeError", "cannot unpack"))
        ELSE
        \* cwd.on_enter(), then the serialize_filter pass over the right side
        Bind(IF IsFilteringCommand(d.cmd)
             THEN eval(token.right, env, pth, NewSF, NoneV, FALSE,
                       Log(s, [ev |-> "on_enter", ns |-> d.cwd]))
             ELSE Ok(Log(s, [ev |-> "on_enter", ns |-> d.cwd]), NoneV),
             LAMBDA f :
                IF Raised(f) THEN f
                ELSE Then(run_piped(d, f, input_data), LAMBDA s2, result :
                         IF IsFilteringCommand(d.cmd) THEN Ok(s2, result)
                         ELSE eval(token.right, 1, <<>>, NoSF, result, FALSE, s2))))

\* PipeExpr, repl.py:1009-1030
eval_PipeExpr(token, env, pth, sf, input_data, st) ==
    IF sf # NoSF THEN
        Bind(eval(token.left, env, pth, sf, NoneV, FALSE, st), LAMBDA l :
            IF Raised(l) THEN l
            ELSE Bind(eval(token.right, env, pth, sf_after(l, sf), NoneV, FALSE, l.st),
                      LAMBDA r : IF Raised(r) THEN r
                                 ELSE Res(r.st, NoneV, NoExc,
                                          sf_after(r, sf_after(l, sf)))))
    ELSE
    Then(eval(token.left, env, pth, NoSF, NoneV, TRUE, st), LAMBDA s, d :
        IF d.t # "dry" THEN Raise(s, Exc("TypeError", "cannot unpack"))
        ELSE
        \* cwd.on_enter(), then the serialize_filter pass over the right side
        Bind(IF IsFilteringCommand(d.cmd)
             THEN eval(token.right, env, pth, NewSF, NoneV, FALSE,
                       Log(s, [ev |-> "on_enter", ns |-> d.cwd]))
             ELSE Ok(Log(s, [ev |-> "on_enter", ns |-> d.cwd]), NoneV),
             LAMBDA f :
                IF Raised(f) THEN f
                ELSE Then(run_piped(d, f, input_data), LAMBDA s2, result :
                         \* `self.eval(token.right, input_data=result)`
                         eval(token.right, 1, <<>>, NoSF, result, FALSE, s2))))

\* `return self.context.builtin_operators[token.op](...)`
applied(st, o) == IF o.err.type # "none" THEN Raise(st, o.err) ELSE Ok(st, o.v)

\* Symbol, repl.py:821-836
eval_Symbol(token, env, cwd, st) ==
    LET f == find(st.envs, env, token.name)
        item == find_in_scope(token.name, cwd)
        st1 == Log(st, [ev |-> "find_in_scope", token |-> token.name, cwd |-> cwd])
    IN  IF f.hit # "KeyError" THEN Ok(st, f.entry.v)
        ELSE IF item # NoneV THEN Ok(st1, item)
        ELSE IF token.name \in ConfigVariables THEN Ok(st1, CfgV(token.name))
        ELSE Raise(st1, Exc("SyntaxError", "not found"))

\* the assignment that makes the new Variable in the global environment
assign_in_global(token, env, st, expr) ==
    LET f == find(st.envs, env, token.name) IN
    IF f.hit = "KeyError" THEN
        Ok([st EXCEPT !.envs = SetItem(@, 1, token.name, Variable(expr))], NoneV)
    ELSE IF f.hit = "env" /\ f.entry.wrapped THEN
        Ok([st EXCEPT !.envs = SetItem(@, f.env, token.name, Variable(expr))], NoneV)
    ELSE IF f.entry.v.t \in {"func", "builtinfunc", "ns", "cmd"} THEN
        Ok(st, NoneV)
    ELSE Raise(st, Exc("AttributeError", "value"))

\* `env.find(token.name).value = expr`, or a new Variable when find raises
\* KeyError: repl.py:854-857
assign(token, env, st, expr) ==
    LET f == find(st.envs, env, token.name) IN
    IF f.hit = "KeyError" THEN
        Ok([st EXCEPT !.envs = SetItem(@, env, token.name, Variable(expr))], NoneV)
    ELSE IF f.hit = "env" /\ f.entry.wrapped THEN
        Ok([st EXCEPT !.envs = SetItem(@, f.env, token.name, Variable(expr))], NoneV)
    ELSE IF f.entry.v.t \in {"func", "builtinfunc", "ns", "cmd"} THEN
        \* `.value` becomes an attribute of the object found
        Ok(st, NoneV)
    ELSE Raise(st, Exc("AttributeError", "value"))

\* MainLoop.eval, repl.py:788-1038
eval(token, env, pth, sf, input_data, dry_run, st0) ==
    LET st == IF st0.start_from_root
              THEN [st0 EXCEPT !.path = <<Root>>, !.start_from_root = FALSE]
              ELSE st0
        cwd == IF pth # <<>> THEN Last(pth) ELSE Last(st.path)
    IN
    CASE token.k = "UnaryExpr" ->
           Then(eval1(token.expr, env, st), LAMBDA s, expr :
               applied(s, ApplyUnary(token.op, expr)))
      [] token.k = "BinaryExpr" ->
           Then(eval1(token.left, env, st), LAMBDA s1, left :
               Then(eval1(token.right, env, s1), LAMBDA s2, right :
                   applied(s2, ApplyBinary(token.op, left, right))))
      [] token.k = "Literal" ->
           IF token.type = "list" THEN call_eval_items(token.value, env, st, <<>>)
           ELSE Ok(st, token.value)
      [] token.k = "Symbol" -> eval_Symbol(token, env, cwd, st)
      [] token.k = "AssignmentStatement" ->
           Then(eval1(token.expr, env, st), LAMBDA s, expr :
               IF token.name \in ConfigVariables
               THEN Raise(s, Exc("SyntaxError", "is an Environment Variable"))
               ELSE assign(token, env, s, expr))
      [] token.k = "IfStatement" ->
           Then(eval1(token.expr, env, st), LAMBDA s, expr :
               Then(call_eval_block(IF Truthy(expr) THEN token.body ELSE token.else_body,
                                    Len(s.envs) + 1, FALSE, NewEnv(s, env, EmptyMap)),
                    LAMBDA s2, none : Ok(s2, NoneV)))
      [] token.k = "ForStatement" ->
           Then(eval1(token.expr, env, NewEnv(st, env, EmptyMap)), LAMBDA s, expr :
               IF expr.t # "list" THEN Raise(s, Exc("TypeError", "not iterable"))
               ELSE call_for_loop(expr.xs, token, Len(st.envs) + 1, s))
      [] token.k = "WhileStatement" ->
           call_while_loop(token, env, Len(st.envs) + 1, NewEnv(st, env, EmptyMap))
      [] token.k = "ReturnStatement" ->
           Then(eval1(token.expr, env, st), LAMBDA s, expr :
               Ok(s, FlowV("RETURN", expr)))
      [] token.k = "BreakStatement" -> Ok(st, FlowV("BREAK", NoneV))
      [] token.k = "UndefStatement" ->
           \* `del env[token.name]`, then no return: the dispatch falls through
           \* to the final raise
           IF token.name \notin DOMAIN st.envs[env].vars
           THEN Raise(st, Exc("KeyError", token.name))
           ELSE Raise([st EXCEPT !.envs = DelItem(@, env, token.name)],
                      Exc("SyntaxError", "Unknown AST token"))
      [] token.k = "ExpressionExpansion" -> eval1(token.expr, env, st)
      [] token.k = "CommandCall" ->
           eval_CommandCall(token.args, env, pth, sf, input_data, dry_run, st)
      [] token.k = "FunctionCall" -> eval_FunctionCall(token, env, st)
      [] token.k = "FunctionDefinition" ->
           Ok([st EXCEPT !.envs = SetItem(@, env, token.name,
                   Raw([t |-> "func", s |-> token.name, params |-> token.args,
                        body |-> token.body, env |-> env]))],
              NoneV)
      [] token.k = "BinaryParameter" ->
           Then(eval1(token.right, env, st), LAMBDA s, right :
               Ok(s, TupleV(token.left, token.op, right)))
      [] token.k = "PipeExpr" -> eval_PipeExpr(token, env, pth, sf, input_data, st)
      \* the loops of the helpers, entered through the call_ operators
      [] token.k = "eval_items" -> eval_items(token.items, env, st, token.acc)
      [] token.k = "eval_block" -> eval_block(token.block, env, token.allow_break, st)
      [] token.k = "Function_call" -> Function_call(token.func, token.args, st)
      [] token.k = "for_loop" -> for_loop(token.items, token.token, env, st)
      [] token.k = "while_loop" -> while_loop(token.token, env, token.local_env, st)
      [] OTHER -> Raise(st, Exc("SyntaxError", "Unknown AST token"))

-----------------------------------------------------------------------------
(* The statement driver, repl.py:1040-1106 *)

\* an input line: `slash` says it began with '/', `kind` says what follows:
\* "empty" (nothing), "dash" (the line '-'), "syntax" (text parse() rejects)
\* or "stmts" (text parse() turns into the statements `stmts`)
Line(text, slash, kind, stmts) ==
    [text |-> text, slash |-> slash, kind |-> kind, stmts |-> stmts]

Returned(st, exc, handler) ==
    [st |-> st, outcome |-> [ended |-> "returned", exc |-> exc, handler |-> handler]]
Propagated(st, exc) ==
    [st |-> st, outcome |-> [ended |-> "raised", exc |-> exc, handler |-> "none"]]

\* `except BaseException as err` of the statement loop, repl.py:1074-1085
report(st, exc) ==
    LET st1 == Out(st, [msg |-> "Error", type |-> exc.type]) IN
    IF Len(st.call_stack) > 1
    THEN Out(st1, [msg |-> "Call stack", stack |-> st.call_stack])
    ELSE st1

RECURSIVE process_tokens(_, _)
\* the statement loop with `except Exception` in place of
\* `except BaseException`: KeyboardInterrupt leaves process() too
process_tokens_except_Exception(tokens, st) ==
    IF tokens = <<>> THEN Returned(st, "none", "none")
    ELSE Bind(eval(Head(tokens), 1, <<>>, NoSF, NoneV, FALSE, st), LAMBDA r :
             IF r.exc.type \in {"SystemExit", "KeyboardInterrupt"}
             THEN Propagated(r.st, r.exc.type)
             ELSE IF Raised(r)
                  THEN Returned(report(r.st, r.exc), r.exc.type, "statement")
             ELSE process_tokens(Tail(tokens),
                                 IF Truthy(r.ret)
                                 THEN Out(r.st, [msg |-> "format_output", value |-> r.ret])
                                 ELSE r.st))

\* `for i in tokens`, repl.py:1069-1088: SystemExit is re-raised (and leaves
\* process() through sys.exit, repl.py:1099-1100); every other BaseException
\* is reported and ends the line
process_tokens(tokens, st) ==
    IF tokens = <<>> THEN Returned(st, "none", "none")
    ELSE Bind(eval(Head(tokens), 1, <<>>, NoSF, NoneV, FALSE, st), LAMBDA r :
             IF r.exc.type = "SystemExit" THEN Propagated(r.st, "SystemExit")
             ELSE IF Raised(r)
                  THEN Returned(report(r.st, r.exc), r.exc.type, "statement")
             ELSE process_tokens(Tail(tokens),
                                 IF Truthy(r.ret)
                                 THEN Out(r.st, [msg |-> "format_output", value |-> r.ret])
                                 ELSE r.st))

\* MainLoop.process
process(line, st) ==
    IF ~line.slash /\ line.kind = "empty" THEN Returned(st, "none", "none")
    ELSE IF line.slash /\ line.kind = "empty" THEN
        Returned([st EXCEPT !.prev_path = st.path, !.path = <<Root>>], "none", "none")
    ELSE
    LET st1 == IF line.slash THEN [st EXCEPT !.start_from_root = TRUE] ELSE st IN
    IF line.kind = "dash" THEN
        Returned([st1 EXCEPT !.prev_path = st1.path, !.path = st1.prev_path],
                 "none", "none")
    ELSE IF line.kind = "syntax" THEN
        Returned(Out(st1, [msg |-> "Syntax error"]), "SyntaxError", "line")
    ELSE process_tokens(line.stmts, st1)

-----------------------------------------------------------------------------
(* The lexer, parser.py:84-292.  A text is a sequence of characters; an    *)
(* integer token value is a Python int, which has no width: it is kept as  *)
(* a sequence of base-1000 limbs, least significant first, zero being <<>>. *)

RECURSIVE MulAdd(_, _, _)
\* value * m + c, for 1 <= m and 0 <= c
MulAdd(value, m, c) ==
    IF value = <<>>
    THEN IF c = 0 THEN <<>> ELSE <<c % 1000>> \o MulAdd(<<>>, m, c \div 1000)
    ELSE <<(value[1] * m + c) % 1000>>
            \o MulAdd(Tail(value), m, (value[1] * m + c) \div 1000)

RECURSIVE Times(_, _, _)
\* value * m^i
Times(value, m, i) == IF i = 0 THEN value ELSE Times(MulAdd(value, m, 0), m, i - 1)

Digit == {"0", "1", "2", "3", "4", "5", "6", "7", "8", "9"}
HexDigit == Digit \cup {"a", "b", "c", "d", "e", "f", "A", "B", "C", "D", "E", "F"}
Lowercase == {"a", "b", "c", "d", "e", "f", "g", "h", "i", "j", "k", "l", "m",
              "n", "o", "p", "q", "r", "s", "t", "u", "v", "w", "x", "y", "z"}
Uppercase == {"A", "B", "C", "D", "E", "F", "G", "H", "I", "J", "K", "L", "M",
              "N", "O", "P", "Q", "R", "S", "T", "U", "V", "W", "X", "Y", "Z"}
Letter == Lowercase \cup Uppercase
DigitValue(c) ==
    CASE c = "0" -> 0 [] c = "1" -> 1 [] c = "2" -> 2 [] c = "3" -> 3
      [] c = "4" -> 4 [] c = "5" -> 5 [] c = "6" -> 6 [] c = "7" -> 7
      [] c = "8" -> 8 [] c = "9" -> 9
      [] c \in {"a", "A"} -> 10 [] c \in {"b", "B"} -> 11
      [] c \in {"c", "C"} -> 12 [] c \in {"d", "D"} -> 13
      [] c \in {"e", "E"} -> 14 [] c \in {"f", "F"} -> 15

\* str.lower() of a character
lower(c) ==
    CASE c = "K" -> "k" [] c = "M" -> "m" [] c = "G" -> "g" [] c = "T" -> "t"
      [] c = "I" -> "i" [] c = "B" -> "b" [] OTHER -> c

RECURSIVE int_from(_, _, _)
\* int(text, base), the digits read from the left
int_from(text, base, acc) ==
    IF text = <<>> THEN acc
    ELSE int_from(Tail(text), base, MulAdd(acc, base, DigitValue(Head(text))))
int(text, base) == int_from(text, base, <<>>)

RECURSIVE Run(_, _, _)
\* how many characters of s, from position i on, are in class: the greedy
\* match of `[class]*`
Run(s, i, class) ==
    IF i <= Len(s) /\ s[i] \in class THEN 1 + Run(s, i + 1, class) ELSE 0

At(s, i, class) == i <= Len(s) /\ s[i] \in class

\* the rules return the length of their match at the head of s, 0 for none

\* t_IPV4: \d+\.\d+\.\d+\.\d+
t_IPV4(s) ==
    LET d1 == Run(s, 1, Digit)
        d2 == Run(s, d1 + 2, Digit)
        d3 == Run(s, d1 + d2 + 3, Digit)
        d4 == Run(s, d1 + d2 + d3 + 4, Digit)
    IN  IF /\ d1 > 0 /\ At(s, d1 + 1, {"."})
           /\ d2 > 0 /\ At(s, d1 + d2 + 2, {"."})
           /\ d3 > 0 /\ At(s, d1 + d2 + d3 + 3, {"."})
           /\ d4 > 0
        THEN d1 + d2 + d3 + d4 + 3 ELSE 0

\* t_IPV6: ([a-fA-F0-9]{1,4}:){1,7}:?([a-fA-F0-9:?]{1,4}){1,7}; a match
\* begins with one to four hex digits and a colon and goes on over hex
\* digits, colons and question marks
t_IPV6(s) ==
    LET h == Run(s, 1, HexDigit)
        n == Run(s, 1, HexDigit \cup {":", "?"})
    IN  IF h \in 1..4 /\ At(s, h + 1, {":"}) /\ n > h + 1
        THEN (IF n > 64 THEN 64 ELSE n) ELSE 0

\* t_SIZE: (\d+)([kKmMgGtT][iI]?[Bb]?)
t_SIZE(s) ==
    LET d == Run(s, 1, Digit)
        i == IF At(s, d + 2, {"i", "I"}) THEN 1 ELSE 0
        b == IF At(s, d + i + 2, {"b", "B"}) THEN 1 ELSE 0
    IN  IF d > 0 /\ At(s, d + 1, {"k", "K", "m", "M", "g", "G", "t", "T"})
        THEN d + 1 + i + b ELSE 0

\* t_SIZE comparing the suffix as it was typed
SIZE_value_as_typed(text) ==
    LET d == Run(text, 1, Digit)
        suffix == SubSeq(text, d + 1, Len(text))
        value == int(SubSeq(text, 1, d), 10)
    IN  CASE suffix = <<"k", "i", "b">> -> MulAdd(value, 1024, 0)
          [] suffix \in {<<"k">>, <<"k", "b">>} -> MulAdd(value, 1000, 0)
          [] suffix = <<"m", "i", "b">> -> Times(value, 1024, 2)
          [] suffix \in {<<"m">>, <<"m", "b">>} -> Times(value, 1000, 2)
          [] suffix = <<"g", "i", "b">> -> Times(value, 1024, 3)
          [] suffix \in {<<"g">>, <<"g", "b">>} -> Times(value, 1000, 3)
          [] suffix = <<"t", "i", "b">> -> Times(value, 1024, 4)
          [] suffix \in {<<"t">>, <<"t", "b">>} -> Times(value, 1000, 4)
          [] OTHER -> value

\* the value t_SIZE gives its token, parser.py:132-160
SIZE_value(text) ==
    LET d == Run(text, 1, Digit)
        suffix == [j \in 1..(Len(text) - d) |-> lower(text[d + j])]
        value == int(SubSeq(text, 1, d), 10)
    IN  CASE suffix = <<"k", "i", "b">> -> MulAdd(value, 1024, 0)
          [] suffix \in {<<"k">>, <<"k", "b">>} -> MulAdd(value, 1000, 0)
          [] suffix = <<"m", "i", "b">> -> Times(value, 1024, 2)
          [] suffix \in {<<"m">>, <<"m", "b">>} -> Times(value, 1000, 2)
          [] suffix = <<"g", "i", "b">> -> Times(value, 1024, 3)
          [] suffix \in {<<"g">>, <<"g", "b">>} -> Times(value, 1000, 3)
          [] suffix = <<"t", "i", "b">> -> Times(value, 1024, 4)
          [] suffix \in {<<"t">>, <<"t", "b">>} -> Times(value, 1000, 4)
          [] OTHER -> value

\* t_TIMEDELTA: (\d+:\d+\.?\d*)+, its first repetition
t_TIMEDELTA(s) ==
    LET d1 == Run(s, 1, Digit)
        d2 == Run(s, d1 + 2, Digit)
        dot == IF At(s, d1 + d2 + 2, {"."}) THEN 1 ELSE 0
        d3 == Run(s, d1 + d2 + dot + 2, Digit)
    IN  IF d1 > 0 /\ At(s, d1 + 1, {":"}) /\ d2 > 0
        THEN d1 + 1 + d2 + dot + d3 ELSE 0

\* `0x[0-9a-fA-F]+`, `0o[0-7]+`, `0b[01]+`: the prefix, then the digits
prefixed(s, letter, digits) ==
    IF At(s, 1, {"0"}) /\ At(s, 2, {letter}) /\ Run(s, 3, digits) > 0
    THEN 2 + Run(s, 3, digits) ELSE 0
t_HEXNUMBER(s) == prefixed(s, "x", HexDigit)
t_OCTNUMBER(s) == prefixed(s, "o", {"0", "1", "2", "3", "4", "5", "6", "7"})
t_BINNUMBER(s) == prefixed(s, "b", {"0", "1"})
\* t_NUMBER: \d+
t_NUMBER(s) == Run(s, 1, Digit)
\* t_ATOM: [0-9a-zA-Z_][0-9a-zA-Z_\.\/#@\:]*
t_ATOM(s) ==
    IF At(s, 1, Digit \cup Letter \cup {"_"})
    THEN 1 + Run(s, 2, Digit \cup Letter \cup {"_", ".", "/", "#", "@", ":"})
    ELSE 0

RECURSIVE str(_)
\* the Python string of a sequence of characters
str(cs) == IF cs = <<>> THEN "" ELSE Head(cs) \o str(Tail(cs))

\* reserved.get(value, 'ATOM'), parser.py:84-100
reserved_get(value) ==
    CASE value = "if" -> "IF" [] value = "else" -> "ELSE" [] value = "for" -> "FOR"
      [] value = "while" -> "WHILE" [] value = "in" -> "IN"
      [] value = "function" -> "FUNCTION" [] value = "return" -> "RETURN"
      [] value = "break" -> "BREAK" [] value = "and" -> "AND" [] value = "or" -> "OR"
      [] value = "not" -> "NOT" [] value = "undef" -> "UNDEF"
      [] value = "true" -> "TRUE" [] value = "false" -> "FALSE"
      [] value = "none" -> "NULL" [] OTHER -> "ATOM"

\* t_COMMENT: \#.* ; t_NEWLINE: [\n;]+
RECURSIVE RunExcept(_, _, _)
RunExcept(s, i, class) ==
    IF i <= Len(s) /\ s[i] \notin class THEN 1 + RunExcept(s, i + 1, class) ELSE 0
t_COMMENT(s) == IF At(s, 1, {"#"}) THEN 1 + RunExcept(s, 2, {"\n"}) ELSE 0
t_NEWLINE(s) == Run(s, 1, {"\n", ";"})

\* the rules defined as strings, parser.py:211-238, in the order the lexer
\* tries them: the longer expression first, the earlier definition first
\* among expressions of one length
string_rules ==
    <<[type |-> "EOPEN", text |-> <<"$", "(">>],
      [type |-> "COPEN", text |-> <<"$", "{">>],
      [type |-> "UP", text |-> <<".", ".">>],
      [type |-> "INC", text |-> <<"=", "+">>],
      [type |-> "NE", text |-> <<"!", "=">>],
      [type |-> "LBRACKET", text |-> <<"[">>],
      [type |-> "RBRACKET", text |-> <<"]">>],
      [type |-> "PIPE", text |-> <<"|">>],
      [type |-> "LPAREN", text |-> <<"(">>],
      [type |-> "RPAREN", text |-> <<")">>],
      [type |-> "DEC", text |-> <<"=", "-">>],
      [type |-> "EQ", text |-> <<"=", "=">>],
      [type |-> "GE", text |-> <<">", "=">>],
      [type |-> "LE", text |-> <<"<", "=">>],
      [type |-> "PLUS", text |-> <<"+">>],
      [type |-> "MUL", text |-> <<"*">>],
      [type |-> "DIV", text |-> <<"/">>],
      [type |-> "REGEX", text |-> <<"~", "=">>],
      [type |-> "COMMA", text |-> <<",">>],
      [type |-> "LIST", text |-> <<"?">>],
      [type |-> "REDIRECT", text |-> <<">", ">">>],
      [type |-> "ASSIGN", text |-> <<"=">>],
      [type |-> "GT", text |-> <<">">>],
      [type |-> "LT", text |-> <<"<">>],
      [type |-> "MINUS", text |-> <<"-">>],
      [type |-> "COLON", text |-> <<":">>]>>

StartsWith(s, text) == Len(s) >= Len(text) /\ SubSeq(s, 1, Len(text)) = text

Token(type, value, len) == [type |-> type, value |-> value, len |-> len]

\* t_ATOM's token: a reserved word takes its own type, and true, false and
\* none their Python value
ATOM_token(text) ==
    Token(reserved_get(str(text)),
          CASE str(text) = "true" -> "True" [] str(text) = "false" -> "False"
            [] str(text) = "none" -> "None" [] OTHER -> str(text),
          Len(text))

RECURSIVE string_token(_, _)
\* the first string rule from the i-th on that matches; t_error when none
string_token(s, i) ==
    IF i > Len(string_rules) THEN Token("error", str(SubSeq(s, 1, 1)), 1)
    ELSE IF StartsWith(s, string_rules[i].text)
         THEN Token(string_rules[i].type, str(string_rules[i].text),
                    Len(string_rules[i].text))
    ELSE string_token(s, i + 1)

\* the master expression of the lexer: the rules defined as functions in
\* the order of their definition, then the rules defined as strings; the
\* first that matches gives the token
lexer_token(s) ==
    CASE t_COMMENT(s) > 0 -> Token("COMMENT", "", t_COMMENT(s))
      [] t_IPV4(s) > 0 -> Token("ATOM", str(SubSeq(s, 1, t_IPV4(s))), t_IPV4(s))
      [] t_IPV6(s) > 0 -> Token("ATOM", str(SubSeq(s, 1, t_IPV6(s))), t_IPV6(s))
      [] t_SIZE(s) > 0 ->
           Token("NUMBER", SIZE_value(SubSeq(s, 1, t_SIZE(s))), t_SIZE(s))
      [] t_TIMEDELTA(s) > 0 ->
           Token("STRING", str(SubSeq(s, 1, t_TIMEDELTA(s))), t_TIMEDELTA(s))
      [] t_HEXNUMBER(s) > 0 ->
           Token("HEXNUMBER", int(SubSeq(s, 3, t_HEXNUMBER(s)), 16), t_HEXNUMBER(s))
      [] t_OCTNUMBER(s) > 0 ->
           Token("OCTNUMBER", int(SubSeq(s, 3, t_OCTNUMBER(s)), 8), t_OCTNUMBER(s))
      [] t_BINNUMBER(s) > 0 ->
           Token("BINNUMBER", int(SubSeq(s, 3, t_BINNUMBER(s)), 2), t_BINNUMBER(s))
      [] t_NUMBER(s) > 0 ->
           Token("NUMBER", int(SubSeq(s, 1, t_NUMBER(s)), 10), t_NUMBER(s))
      [] t_ATOM(s) > 0 -> ATOM_token(SubSeq(s, 1, t_ATOM(s)))
      [] At(s, 1, {"{"}) -> Token("LBRACE", "{", 1)
      [] At(s, 1, {"}"}) -> Token("RBRACE", "}", 1)
      [] t_NEWLINE(s) > 0 -> Token("NEWLINE", str(SubSeq(s, 1, t_NEWLINE(s))), t_NEWLINE(s))
      [] OTHER -> string_token(s, 1)

RECURSIVE lex(_)
\* lexer.lexer_token() until the end of the text: t_ignore (blank and tab) is
\* skipped between tokens and a comment gives no token
lex(s) ==
    IF s = <<>> THEN <<>>
    ELSE IF Head(s) \in {" ", "\t"} THEN lex(Tail(s))
    ELSE IF lexer_token(s).type = "COMMENT" THEN lex(SubSeq(s, lexer_token(s).len + 1, Len(s)))
    ELSE <<[type |-> lexer_token(s).type, value |-> lexer_token(s).value]>>
            \o lex(SubSeq(s, lexer_token(s).len + 1, Len(s)))

\* lexer.parens after the tokens of line: t_LBRACE adds one and t_RBRACE
\* takes one off, parser.py:259-268
parens_after(parens, line) ==
    parens + Len(SelectSeq(line, LAMBDA t : t.type = "LBRACE"))
           - Len(SelectSeq(line, LAMBDA t : t.type = "RBRACE"))

\* t_eof, parser.py:285-292: `if lexer.parens > 0`, it asks the caller for a
\* line
t_eof(parens) == parens > 0

RECURSIVE lexer_run(_, _, _, _, _)
\* lexer.token() until it returns None, parse() having set lexer.parens to 0:
\* s is the input the lexer was given, more the lines ml.input() will return
\* (the empty line once they are used up), toks the tokens of the inputs
\* before s and eofs what t_eof did at the end of each of them
lexer_run(s, more, parens, toks, eofs) ==
    Bind(lex(s), LAMBDA line :
        IF t_eof(parens_after(parens, line)) THEN
            IF more = <<>> \/ Head(more) = <<>>
            THEN [tokens |-> toks \o line,
                  eofs |-> Append(eofs, [at |-> Len(toks \o line), asked |-> TRUE])]
            ELSE lexer_run(Head(more) \o <<"\n">>, Tail(more),
                           parens_after(parens, line), toks \o line,
                           Append(eofs, [at |-> Len(toks \o line), asked |-> TRUE]))
        ELSE [tokens |-> toks \o line,
              eofs |-> Append(eofs, [at |-> Len(toks \o line), asked |-> FALSE])])

-----------------------------------------------------------------------------
(* The parser, parser.py:240-250 and 295-839: the statements and the       *)
(* expressions of the grammar, parsed the way the generated LR parser      *)
(* parses them: tokens are shifted on a stack, and where a production is   *)
(* complete on the stack and the next token could also be shifted, the     *)
(* precedence table decides.                                               *)

ToInt(value) ==
    IF value = <<>> THEN 0
    ELSE IF Len(value) = 1 THEN value[1]
    ELSE IF Len(value) = 2 THEN value[1] + 1000 * value[2]
    ELSE value[1] + 1000 * value[2] + 1000000 * value[3]

\* the table with arithmetic above comparison, as most languages have it
precedence_conventional ==
    <<[assoc |-> "left", types |-> {"AND", "OR"}],
      [assoc |-> "right", types |-> {"NOT"}],
      [assoc |-> "left", types |-> {"REGEX"}],
      [assoc |-> "left", types |-> {"GT", "LT"}],
      [assoc |-> "left", types |-> {"GE", "LE"}],
      [assoc |-> "left", types |-> {"EQ", "NE"}],
      [assoc |-> "left", types |-> {"MINUS", "PLUS"}],
      [assoc |-> "left", types |-> {"MUL", "DIV"}],
      [assoc |-> "left", types |-> {"INC", "DEC"}]>>

\* precedence, parser.py:240-250, lowest first
precedence ==
    <<[assoc |-> "left", types |-> {"MINUS", "PLUS"}],
      [assoc |-> "left", types |-> {"MUL", "DIV"}],
      [assoc |-> "left", types |-> {"AND", "OR"}],
      [assoc |-> "right", types |-> {"NOT"}],
      [assoc |-> "left", types |-> {"REGEX"}],
      [assoc |-> "left", types |-> {"GT", "LT"}],
      [assoc |-> "left", types |-> {"GE", "LE"}],
      [assoc |-> "left", types |-> {"EQ", "NE"}],
      [assoc |-> "left", types |-> {"INC", "DEC"}]>>

\* the level of a token type in the table, 0 for a type it does not hold
Level(type) ==
    IF \E i \in 1..Len(precedence) : type \in precedence[i].types
    THEN CHOOSE i \in 1..Len(precedence) : type \in precedence[i].types
    ELSE 0

\* the terminals of p_binary_expr, of p_unary_expr and of p_literal
BinaryOps == {"EQ", "NE", "GT", "GE", "LT", "LE", "PLUS", "MINUS", "MUL", "DIV",
              "REGEX", "AND", "OR", "NOT"}
UnaryOps == {"MINUS", "NOT"}
Literals == {"NUMBER", "HEXNUMBER", "BINNUMBER", "OCTNUMBER", "STRING", "TRUE",
             "FALSE", "NULL"}

\* an entry of the parser's stack: a token, or the expr a reduction built
Entry(type, v) == [type |-> type, v |-> v]
Parsed(node) == [ok |-> TRUE, ast |-> node]
SyntaxError == [ok |-> FALSE, ast |-> NoneV]

\* p_literal and p_symbol: the node of an operand token
operand(tok) ==
    CASE tok.type \in {"NUMBER", "HEXNUMBER", "BINNUMBER", "OCTNUMBER"} ->
           Literal(IntV(ToInt(tok.value)), "int")
      [] tok.type = "STRING" -> Literal(StrV(tok.value), "str")
      [] tok.type = "TRUE" -> Literal(BoolV(TRUE), "bool")
      [] tok.type = "FALSE" -> Literal(BoolV(FALSE), "bool")
      [] tok.type = "NULL" -> Literal(NoneV, "none")
      [] tok.type = "ATOM" -> Symbol(tok.value)

IsExpr(stack, i) == i >= 1 /\ stack[i].type = "expr"
IsType(stack, i, types) == i >= 1 /\ stack[i].type \in types

\* the conflict between reducing a production whose precedence is that of
\* the terminal `op` and shifting the token `la`: shift when la binds
\* tighter, or as tight with right associativity
shifts(op, la) ==
    /\ la \in BinaryOps
    /\ \/ Level(la) > Level(op)
       \/ Level(la) = Level(op) /\ precedence[Level(op)].assoc = "right"

Drop(stack, n) == SubSeq(stack, 1, Len(stack) - n)

RECURSIVE lr(_, _)
\* the parser at work on an expr: the stack and the tokens not yet read,
\* the last of them the end marker
lr(stack, input) ==
    LET n == Len(stack)
        la == Head(input).type
    IN
    IF IsExpr(stack, n) /\ IsType(stack, n - 1, BinaryOps) /\ IsExpr(stack, n - 2)
    THEN \* binary_expr : expr OP expr .
         IF shifts(stack[n - 1].type, la)
         THEN lr(Append(stack, Head(input)), Tail(input))
         ELSE lr(Append(Drop(stack, 3),
                        Entry("expr", BinaryExpr(stack[n - 2].v, stack[n - 1].value,
                                                 stack[n].v))),
                 input)
    ELSE IF IsExpr(stack, n) /\ IsType(stack, n - 1, UnaryOps)
    THEN \* unary_expr : OP expr .
         IF shifts(stack[n - 1].type, la)
         THEN lr(Append(stack, Head(input)), Tail(input))
         ELSE lr(Append(Drop(stack, 2),
                        Entry("expr", UnaryExpr(stack[n].v, stack[n - 1].value))),
                 input)
    ELSE IF IsType(stack, n, {"RPAREN"})
    THEN \* expr : LPAREN expr RPAREN .
         lr(Append(Drop(stack, 3), stack[n - 1]), input)
    ELSE IF IsExpr(stack, n)
    THEN IF la \in BinaryOps \/ (la = "RPAREN" /\ IsType(stack, n - 1, {"LPAREN"}))
         THEN lr(Append(stack, Head(input)), Tail(input))
         ELSE IF la = "$end" /\ n = 1 THEN Parsed(stack[1].v)
         ELSE SyntaxError
    ELSE IF la \in Literals \cup {"ATOM"}
         THEN lr(Append(stack, Entry("expr", operand(Head(input)))), Tail(input))
    ELSE IF la \in UnaryOps \cup {"LPAREN"}
         THEN lr(Append(stack, Head(input)), Tail(input))
    ELSE SyntaxError

End == [type |-> "$end", value |-> ""]
p_expr(toks) == lr(<<>>, Append(toks, End))

\* stmt, for the statements of p_assignment_stmt, p_return_stmt_1,
\* p_return_stmt_2, p_break_stmt and p_undef_stmt
p_stmt(toks) ==
    IF Len(toks) >= 2 /\ toks[1].type = "ATOM" /\ toks[2].type = "ASSIGN"
    THEN Bind(p_expr(SubSeq(toks, 3, Len(toks))), LAMBDA e :
            IF e.ok THEN Parsed(AssignmentStatement(toks[1].value, e.ast))
            ELSE SyntaxError)
    ELSE IF Len(toks) = 1 /\ toks[1].type = "RETURN"
    THEN Parsed(ReturnStatement(Literal(NoneV, "none")))
    ELSE IF Len(toks) >= 2 /\ toks[1].type = "RETURN"
    THEN Bind(p_expr(Tail(toks)), LAMBDA e :
            IF e.ok THEN Parsed(ReturnStatement(e.ast)) ELSE SyntaxError)
    ELSE IF Len(toks) = 1 /\ toks[1].type = "BREAK"
    THEN Parsed(BreakStatement)
    ELSE IF Len(toks) = 2 /\ toks[1].type = "UNDEF" /\ toks[2].type = "ATOM"
    THEN Parsed(UndefStatement(toks[2].value))
    ELSE SyntaxError

\* how many tokens come before the first NEWLINE
RECURSIVE upto_NEWLINE(_)
upto_NEWLINE(toks) ==
    IF toks = <<>> \/ Head(toks).type = "NEWLINE" THEN 0
    ELSE 1 + upto_NEWLINE(Tail(toks))

RECURSIVE p_stmt_list(_)
\* p_stmt_list and p_stmt_list_2: statements with NEWLINE tokens between,
\* before and after them, and at least one statement
p_stmt_list(toks) ==
    IF toks = <<>> THEN SyntaxError
    ELSE IF Head(toks).type = "NEWLINE" THEN p_stmt_list(Tail(toks))
    ELSE Bind(p_stmt(SubSeq(toks, 1, upto_NEWLINE(toks))), LAMBDA first :
            IF ~first.ok THEN SyntaxError
            ELSE IF upto_NEWLINE(toks) + 1 >= Len(toks) THEN Parsed(<<first.ast>>)
            ELSE Bind(p_stmt_list(SubSeq(toks, upto_NEWLINE(toks) + 2, Len(toks))),
                      LAMBDA rest :
                        IF rest.ok THEN Parsed(<<first.ast>> \o rest.ast)
                        ELSE SyntaxError))

\* parse(s, filename): t_error and p_error raise SyntaxError
parse(s) ==
    Bind(lex(s), LAMBDA toks :
        IF \E i \in 1..Len(toks) : toks[i].type = "error" THEN SyntaxError
        ELSE p_stmt_list(toks))

-----------------------------------------------------------------------------
(* unparse, parser.py:842-943 *)

\* the characters of a Python string: of an operator, a reserved word or a
\* one-letter name
Words == {<<"a", "n", "d">>, <<"o", "r">>, <<"n", "o", "t">>, <<"~", "=">>,
          <<">", "=">>, <<"<", "=">>, <<"=", "=">>, <<"!", "=">>}
Chars(s) == IF Len(s) = 1 THEN <<s>> ELSE CHOOSE w \in Words : str(w) = s

RECURSIVE str_int(_)
\* str(value) of a non-negative int
str_int(n) ==
    IF n < 10 THEN <<CHOOSE c \in Digit : DigitValue(c) = n>>
    ELSE str_int(n \div 10) \o <<CHOOSE c \in Digit : DigitValue(c) = n % 10>>

unparse_Literal(token) ==
    CASE token.type = "none" -> <<"n", "o", "n", "e">>
      [] token.type = "str" -> <<"\"">> \o Chars(token.value.s) \o <<"\"">>
      [] token.type = "bool" ->
           IF token.value.b THEN <<"t", "r", "u", "e">>
           ELSE <<"f", "a", "l", "s", "e">>
      [] token.type = "int" -> str_int(token.value.n)

RECURSIVE unparse(_)
\* unparse(token) of one node, indent 0 and oneliner False; a node of a
\* class the function has no branch for gives ''
unparse(token) ==
    CASE token.k = "Literal" -> unparse_Literal(token)
      [] token.k = "Symbol" -> Chars(token.name)
      [] token.k = "AssignmentStatement" ->
           Chars(token.name) \o <<" ", "=", " ">> \o unparse(token.expr)
      [] token.k = "BinaryExpr" ->
           unparse(token.left) \o <<" ">> \o Chars(token.op) \o <<" ">>
              \o unparse(token.right)
      [] token.k \in {"UnaryExpr", "ReturnStatement", "BreakStatement",
                      "UndefStatement"} -> <<>>

RECURSIVE unparse_list(_)
\* unparse(token) of a list: '\n'.join(ind(unparse(i)) for i in token)
unparse_list(token) ==
    IF token = <<>> THEN <<>>
    ELSE IF Len(token) = 1 THEN unparse(token[1])
    ELSE unparse(token[1]) \o <<"\n">> \o unparse_list(Tail(token))

-----------------------------------------------------------------------------
(* The session: one action, process(line) of the next input line *)

\* what Command.run of an external command may do: return, or raise
Oracles == {"ok", "CommandException", "RpcException", "KeyboardInterrupt"}

Session(st) ==
    [path |-> path, prev_path |-> prev_path, start_from_root |-> start_from_root,
     envs |-> envs, call_stack |-> call_stack, trace |-> <<>>, output |-> <<>>,
     orc |-> st]

InitSession ==
    /\ path = <<Root>>
    /\ prev_path = <<Root>>
    /\ start_from_root = FALSE
    /\ envs = <<Environment(0, EmptyMap)>>
    /\ call_stack = <<[func |-> "<stdin>", args |-> <<>>]>>
    /\ trace = <<>>
    /\ output = <<>>
    /\ outcome = [ended |-> "returned", exc |-> "none", handler |-> "none"]
    /\ nlines = 0
    /\ last = [text |-> "", slash |-> FALSE, path |-> <<Root>>,
               prev_path |-> <<Root>>, depth |-> 1, cwd |-> <<Root>>,
               envs |-> <<Environment(0, EmptyMap)>>, start_from_root |-> FALSE]

IdleLexer == lexin = <<>> /\ lexout = NoneV /\ lexeof = <<>>
IdleParser ==
    /\ ptext = <<>> /\ past = NoneV /\ ptext2 = <<>> /\ past2 = NoneV
    /\ pstage = "idle"

\* no statement is being processed and no event is being handled
IdleThreads ==
    /\ output_lock = "free"
    /\ event_divert = FALSE
    /\ event_queue = <<>>
    /\ main_thread = [pc |-> "input", left |-> 0, total |-> 0, n |-> 0]
    /\ callback_thread = [pc |-> "idle", n |-> 0]
    /\ subscriber_thread = [pc |-> "idle"]
    /\ dispatcher = [tasks |-> <<>>, events |-> <<>>]
    /\ submit = [pc |-> "idle", blocking |-> FALSE, callback |-> FALSE, tid |-> 0,
                 seen |-> "none", calls |-> 0, passed |-> {}]
    /\ task_callbacks = {}
    /\ callback_calls = <<>>

\* sort_args has not been called
IdleSort == sort_in = <<>> /\ sort_out = NoneV

Init == InitSession /\ IdleLexer /\ IdleParser /\ IdleThreads /\ IdleSort

\* the session as process() left it
Commit(p) ==
    /\ path' = p.st.path
    /\ prev_path' = p.st.prev_path
    /\ start_from_root' = p.st.start_from_root
    /\ envs' = p.st.envs
    /\ call_stack' = p.st.call_stack
    /\ trace' = p.st.trace
    /\ output' = p.st.output
    /\ outcome' = p.outcome

\* MainLoop.repl, repl.py:742-753: read a line, process it; an exception
\* leaving process() ends the loop
Process(line, orc) ==
    /\ nlines < MaxLines
    /\ outcome.ended = "returned"
    /\ Commit(process(line, Session(orc)))
    /\ nlines' = nlines + 1
    /\ last' = [text |-> line.text, slash |-> line.slash, path |-> path,
                prev_path |-> prev_path, depth |-> Len(call_stack),
                cwd |-> IF line.slash \/ start_from_root THEN <<Root>> ELSE path,
                envs |-> envs, start_from_root |-> start_from_root]
    /\ UNCHANGED <<lexin, lexout, lexeof, ptext, past, ptext2, past2, pstage,
                   threads, sort_in, sort_out>>

Stmts(text, stmts) == Line(text, FALSE, "stmts", stmts)
SlashStmts(text, stmts) == Line(text, TRUE, "stmts", stmts)
Cmd1(a) == CommandCall(<<Symbol(a)>>)
Cmd2(a, b) == CommandCall(<<Symbol(a), Symbol(b)>>)
\* `a b c <param>`, as p_command_1 builds it
Cmd_abc(param) == CommandCall(<<Symbol("a"), Symbol("b"), Symbol("c"), param>>)
\* `${name}` as a parameter, p_unary_parameter
Expand(name) == ExpressionExpansion(Symbol(name))

\* `a b c arg=1`, as p_command_1 and p_binary_parameter build it
Line_abc == Stmts("a b c arg=1", <<Cmd_abc(BinaryParameter("arg", "=", IntLit(1)))>>)

\* the lines about navigation and errors
NavLines ==
    << Line_abc,
      Stmts("a", <<Cmd1("a")>>),
      Stmts("a b", <<Cmd2("a", "b")>>),
      Stmts("b", <<Cmd1("b")>>),
      Stmts("u", <<Cmd1("u")>>),
      Stmts("..", <<CommandCall(<<UpItem>>)>>),
      Stmts("c", <<Cmd1("c")>>),
      Stmts("nosuch", <<Cmd1("nosuch")>>),
      Stmts("b nosuch", <<Cmd2("b", "nosuch")>>),
      Stmts("exit", <<Cmd1("exit")>>),
      Stmts("a; nosuch", <<Cmd1("a"), Cmd1("nosuch")>>),
      Stmts("if (true) { b; nosuch }",
            <<IfStatement(BoolLit(TRUE), <<Cmd1("b"), Cmd1("nosuch")>>, <<>>)>>),
      SlashStmts("/a", <<Cmd1("a")>>),
      SlashStmts("/nosuch", <<Cmd1("nosuch")>>),
      SlashStmts("/a b c", <<CommandCall(<<Symbol("a"), Symbol("b"), Symbol("c")>>)>>),
      Line("/", TRUE, "empty", <<>>),
      Line("-", FALSE, "dash", <<>>),
      Line("", FALSE, "empty", <<>>),
      Line("a ==", FALSE, "syntax", <<>>),
      Line("/a ==", TRUE, "syntax", <<>>) >>

\* `show | search name == root | sort name`, as p_command_2 builds it: the
\* pipe nests to the right
Line_pipe ==
    Stmts("show | search name == root | sort name",
          <<PipeExpr(Cmd1("show"),
                     PipeExpr(CommandCall(<<Symbol("search"),
                                  BinaryParameter("name", "==", Symbol("root"))>>),
                              CommandCall(<<Symbol("sort"), Symbol("name")>>)))>>)

\* `a b c | sort name | limit 1`
Line_pipe_plain ==
    Stmts("a b c | sort name | limit 1",
          <<PipeExpr(CommandCall(<<Symbol("a"), Symbol("b"), Symbol("c")>>),
                     PipeExpr(CommandCall(<<Symbol("sort"), Symbol("name")>>),
                              CommandCall(<<Symbol("limit"), IntLit(1)>>)))>>)

\* `limit 1 | sort name`
Line_pipe_none ==
    Stmts("limit 1 | sort name",
          <<PipeExpr(CommandCall(<<Symbol("limit"), IntLit(1)>>),
                     CommandCall(<<Symbol("sort"), Symbol("name")>>))>>)

\* the lines about pipes
PipeLines ==
    << Line_pipe, Line_pipe_plain, Line_pipe_none,
      Stmts("show", <<Cmd1("show")>>),
      Stmts("u show | limit 1",
            <<PipeExpr(Cmd2("u", "show"),
                       CommandCall(<<Symbol("limit"), IntLit(1)>>))>>),
      Stmts("show | search nosuch == 1",
            <<PipeExpr(Cmd1("show"),
                       CommandCall(<<Symbol("search"),
                                     BinaryParameter("nosuch", "==", IntLit(1))>>))>>) >>

\* for (i in [1, 2]) { for (j in [3, 4]) { a b c ${j}; break; a b c 9 }; a b c ${i} }
Line_break ==
    Stmts("for for break",
          <<ForStatement("i", ListLit(<<IntLit(1), IntLit(2)>>),
              <<ForStatement("j", ListLit(<<IntLit(3), IntLit(4)>>),
                    <<Cmd_abc(Expand("j")), BreakStatement, Cmd_abc(IntLit(9))>>),
                Cmd_abc(Expand("i"))>>)>>)

\* for (i in [1, 2]) { for (j in [3]) { while (true) { a b c ${j}; break; a b c 9 };
\*                                      a b c 8 }; a b c ${i} }
Line_break3 ==
    Stmts("for for while break",
          <<ForStatement("i", ListLit(<<IntLit(1), IntLit(2)>>),
              <<ForStatement("j", ListLit(<<IntLit(3)>>),
                    <<WhileStatement(BoolLit(TRUE),
                          <<Cmd_abc(Expand("j")), BreakStatement, Cmd_abc(IntLit(9))>>),
                      Cmd_abc(IntLit(8))>>),
                Cmd_abc(Expand("i"))>>)>>)

\* function f() { for (i in [1, 2]) { if (true) { return i; a b c 91 }; a b c 92 };
\*                a b c 93 }; x = f(); a b c ${x}
Line_return ==
    Stmts("function f; x = f(); a b c ${x}",
          <<FunctionDefinition("f", <<>>,
              <<ForStatement("i", ListLit(<<IntLit(1), IntLit(2)>>),
                    <<IfStatement(BoolLit(TRUE),
                          <<ReturnStatement(Symbol("i")), Cmd_abc(IntLit(91))>>, <<>>),
                      Cmd_abc(IntLit(92))>>),
                Cmd_abc(IntLit(93))>>),
            AssignmentStatement("x", FunctionCall("f", <<>>)),
            Cmd_abc(Expand("x"))>>)

\* function g(a, b) { p = a; q = b }; g(1)
Line_arity ==
    Stmts("function g(a, b) { p = a; q = b }; g(1)",
          <<FunctionDefinition("g", <<"a", "b">>,
              <<AssignmentStatement("p", Symbol("a")),
                AssignmentStatement("q", Symbol("b"))>>),
            FunctionCall("g", <<IntLit(1)>>)>>)

\* x = 1; if (true) { x = 2 }
Line_assign_if ==
    Stmts("x = 1; if (true) { x = 2 }",
          <<AssignmentStatement("x", IntLit(1)),
            IfStatement(BoolLit(TRUE), <<AssignmentStatement("x", IntLit(2))>>, <<>>)>>)

\* x = 1; if (true) { if (true) { x = 2 } }
Line_assign_if_if ==
    Stmts("x = 1; if (true) { if (true) { x = 2 } }",
          <<AssignmentStatement("x", IntLit(1)),
            IfStatement(BoolLit(TRUE),
                <<IfStatement(BoolLit(TRUE),
                      <<AssignmentStatement("x", IntLit(2))>>, <<>>)>>, <<>>)>>)

\* for (i in [1, 2]) { i = 5 }
Line_assign_loop ==
    Stmts("for (i in [1, 2]) { i = 5 }",
          <<ForStatement("i", ListLit(<<IntLit(1), IntLit(2)>>),
                <<AssignmentStatement("i", IntLit(5))>>)>>)

\* if (true) { y = 1; w = y }; z = y
Line_new_if ==
    Stmts("if (true) { y = 1; w = y }; z = y",
          <<IfStatement(BoolLit(TRUE),
                <<AssignmentStatement("y", IntLit(1)),
                  AssignmentStatement("w", Symbol("y"))>>, <<>>),
            AssignmentStatement("z", Symbol("y"))>>)

\* for (i in [1]) { y = i; w = y }; z = y
Line_new_for ==
    Stmts("for (i in [1]) { y = i; w = y }; z = y",
          <<ForStatement("i", ListLit(<<IntLit(1)>>),
                <<AssignmentStatement("y", Symbol("i")),
                  AssignmentStatement("w", Symbol("y"))>>),
            AssignmentStatement("z", Symbol("y"))>>)

\* function h() { y = 1; w = y }; h(); z = y
Line_new_call ==
    Stmts("function h() { y = 1; w = y }; h(); z = y",
          <<FunctionDefinition("h", <<>>,
                <<AssignmentStatement("y", IntLit(1)),
                  AssignmentStatement("w", Symbol("y"))>>),
            FunctionCall("h", <<>>),
            AssignmentStatement("z", Symbol("y"))>>)

\* n = 0; for (i in [1, 2]) { n = i; if (true) { break }; n = 9 }; m = 7
Line_break_if ==
    Stmts("n = 0; for (i in [1, 2]) { n = i; if (true) { break }; n = 9 }; m = 7",
          <<AssignmentStatement("n", IntLit(0)),
            ForStatement("i", ListLit(<<IntLit(1), IntLit(2)>>),
                <<AssignmentStatement("n", Symbol("i")),
                  IfStatement(BoolLit(TRUE), <<BreakStatement>>, <<>>),
                  AssignmentStatement("n", IntLit(9))>>),
            AssignmentStatement("m", IntLit(7))>>)

\* n = 0; while (true) { n = n + 1; if (false) { n = 8 } else { break }; n = 9 }; m = 7
Line_break_else ==
    Stmts("n = 0; while (true) { n = n + 1; if (false) { n = 8 } else { break }; n = 9 }; m = 7",
          <<AssignmentStatement("n", IntLit(0)),
            WhileStatement(BoolLit(TRUE),
                <<AssignmentStatement("n", BinaryExpr(Symbol("n"), "+", IntLit(1))),
                  IfStatement(BoolLit(FALSE),
                      <<AssignmentStatement("n", IntLit(8))>>, <<BreakStatement>>),
                  AssignmentStatement("n", IntLit(9))>>),
            AssignmentStatement("m", IntLit(7))>>)

\* return 5; r = 1
Line_top_return ==
    Stmts("return 5; r = 1",
          <<ReturnStatement(IntLit(5)), AssignmentStatement("r", IntLit(1))>>)

\* break; r = 2
Line_top_break ==
    Stmts("break; r = 2", <<BreakStatement, AssignmentStatement("r", IntLit(2))>>)

\* the lines about the language
\* function look() { got = cs }; if (true) { cs = 1; look() }
Line_call_site ==
    Stmts("function look() { got = cs }; if (true) { cs = 1; look() }",
          <<FunctionDefinition("look", <<>>,
                <<AssignmentStatement("got", Symbol("cs"))>>),
            IfStatement(BoolLit(TRUE),
                <<AssignmentStatement("cs", IntLit(1)),
                  FunctionCall("look", <<>>)>>, <<>>)>>)

\* c1 = 1; function cap() { return c1 }; c1 = 2; c2 = cap()
Line_captured ==
    Stmts("c1 = 1; function cap() { return c1 }; c1 = 2; c2 = cap()",
          <<AssignmentStatement("c1", IntLit(1)),
            FunctionDefinition("cap", <<>>, <<ReturnStatement(Symbol("c1"))>>),
            AssignmentStatement("c1", IntLit(2)),
            AssignmentStatement("c2", FunctionCall("cap", <<>>))>>)

\* function k(arg) { if (arg == 2) { old = seen }; seen = arg }; k(1); k(2)
Line_fresh ==
    Stmts("function k(arg) { if (arg == 2) { old = seen }; seen = arg }; k(1); k(2)",
          <<FunctionDefinition("k", <<"arg">>,
                <<IfStatement(BinaryExpr(Symbol("arg"), "==", IntLit(2)),
                      <<AssignmentStatement("old", Symbol("seen"))>>, <<>>),
                  AssignmentStatement("seen", Symbol("arg"))>>),
            FunctionCall("k", <<IntLit(1)>>),
            FunctionCall("k", <<IntLit(2)>>)>>)

\* ux = 1; undef ux; uy = 2
Line_undef ==
    Stmts("ux = 1; undef ux; uy = 2",
          <<AssignmentStatement("ux", IntLit(1)),
            UndefStatement("ux"),
            AssignmentStatement("uy", IntLit(2))>>)

\* if (true) { lim = 1; a b c | limit ${lim} }
Line_pipe_local ==
    Stmts("if (true) { lim = 1; a b c | limit ${lim} }",
          <<IfStatement(BoolLit(TRUE),
                <<AssignmentStatement("lim", IntLit(1)),
                  PipeExpr(CommandCall(<<Symbol("a"), Symbol("b"), Symbol("c")>>),
                           CommandCall(<<Symbol("limit"), Expand("lim")>>))>>,
                <<>>)>>)

LangLines ==
    << Line_break, Line_break3, Line_return, Line_arity,
       Line_assign_if, Line_assign_if_if, Line_assign_loop,
       Line_new_if, Line_new_for, Line_new_call,
       Line_break_if, Line_break_else, Line_top_return, Line_top_break,
       Line_call_site, Line_captured, Line_fresh, Line_undef,
       Line_pipe_local >>

Lines == NavLines \o PipeLines \o LangLines

Next == \E i \in 1..Len(Lines), orc \in Oracles : Process(Lines[i], orc)

Spec == Init /\ [][Next]_vars

-----------------------------------------------------------------------------
(* The lexer at work: one action, the lexing of a text *)

LexDigits == {<<"0">>, <<"1">>, <<"7">>, <<"1", "0">>, <<"1", "2">>, <<"0", "0", "7">>}
LexUnits == {<<"k">>, <<"K">>, <<"m">>, <<"M">>, <<"g">>, <<"G">>, <<"t">>, <<"T">>}
LexTails == {<<>>, <<"b">>, <<"B">>, <<"i", "b">>, <<"i", "B">>, <<"I", "b">>,
             <<"I", "B">>, <<"i">>, <<"x">>}
LexPrefixed ==
    {<<"0", "x", "1", "F">>, <<"0", "x", "f", "f">>, <<"0", "x", "1", "0">>,
     <<"0", "x", "F", "F", "F", "F">>, <<"0", "x", "b">>, <<"0", "x", "1", "G">>,
     <<"0", "o", "1", "7">>, <<"0", "o", "7">>, <<"0", "o", "1", "8">>,
     <<"0", "b", "1", "0", "1">>, <<"0", "b", "1">>, <<"0", "b", "0">>,
     <<"0", "b", "1", "2">>, <<"0", "b", "2">>, <<"0", "X", "1", "F">>}
LexTexts ==
    {n \o u \o t : n \in LexDigits, u \in LexUnits, t \in LexTails}
        \cup LexPrefixed \cup LexDigits

Lex(text) ==
    /\ IdleLexer
    /\ lexin' = text
    /\ lexout' = lex(text)
    /\ UNCHANGED <<path, prev_path, start_from_root, envs, call_stack, trace,
                   output, outcome, nlines, last, lexeof, ptext, past, ptext2,
                   past2, pstage, threads, sort_in, sort_out>>

NextLex == \E text \in LexTexts : Lex(text)

SpecLex == Init /\ [][NextLex]_vars

-----------------------------------------------------------------------------
(* The lexer at the end of its input: the lexing of a text that may end    *)
(* inside a block, with the lines the caller hands over when asked         *)

LexPrefixes ==
    {<<>>,
     <<"a", " ", "$", "{", "x", "}", ";", " ">>,
     <<"a", " ", "$", "(", "b", ")", ";", " ">>,
     <<"x", " ", "=", " ", "{", "1", ":", " ", "2", "}", ";", " ">>,
     <<"a", " ", "$", "{", "x", "}", " ", "$", "{", "y", "}", ";", " ">>}
LexBlocks ==
    {<<"i", "f", " ", "(", "x", ")", " ", "{">>,
     <<"i", "f", " ", "(", "x", ")", " ", "{", " ", "a">>,
     <<"i", "f", " ", "(", "x", ")", " ", "{", " ", "a", " ", "}">>,
     <<"i", "f", " ", "(", "x", ")", " ", "{", " ", "a", " ", "$", "{", "y", "}">>,
     <<"w", "h", "i", "l", "e", " ", "(", "x", ")", " ", "{", " ", "i", "f", " ", "(", "y", ")", " ", "{">>,
     <<"w", "h", "i", "l", "e", " ", "(", "x", ")", " ", "{", " ", "i", "f", " ", "(", "y", ")", " ", "{", " ", "a", " ", "}">>,
     <<"x", " ", "=", " ", "{">>,
     <<"i", "f", " ", "(", "x", ")", " ", "{", " ", "b", " ", "}", " ", "e", "l", "s", "e", " ", "{">>,
     <<"f", "(", "1", ")", ";", " ", "i", "f", " ", "(", "x", ")", " ", "{", " ", "$", "{", "y", "}", ";", " ", "i", "f", " ", "(", "z", ")", " ", "{">>}
LexContinuations ==
    {<<>>,
     <<<<"}">>>>,
     <<<<"a">>, <<"}">>>>,
     <<<<"a", " ", "}">>>>,
     <<<<"i", "f", " ", "(", "y", ")", " ", "{">>, <<"}">>, <<"}">>>>,
     <<<<>>, <<"}">>>>,
     <<<<"}">>, <<"}">>>>}

LexBlock(text, more) ==
    /\ IdleLexer
    /\ lexin' = text
    /\ Bind(lexer_run(text, more, 0, <<>>, <<>>), LAMBDA r :
            lexout' = r.tokens /\ lexeof' = r.eofs)
    /\ UNCHANGED <<path, prev_path, start_from_root, envs, call_stack, trace,
                   output, outcome, nlines, last, ptext, past, ptext2, past2,
                   pstage, threads, sort_in, sort_out>>

NextLexBlock ==
    \E prefix \in LexPrefixes, block \in LexBlocks, more \in LexContinuations :
        LexBlock(prefix \o block, more)

SpecLexBlock == Init /\ [][NextLexBlock]_vars

-----------------------------------------------------------------------------
(* sort_args at work: the evaluated parameters of a command are sorted      *)

\* evaluated parameters: plain values, and the tuples BinaryParameter yields
Parameters ==
    { StrV("one"), IntV(5),
      TupleV("arg", "=", IntV(1)), TupleV("arg", "=", IntV(2)),
      TupleV("n", "=", IntV(1)),
      TupleV("lim", ">", IntV(2)), TupleV("lim", "<", IntV(4)) }

RECURSIVE ParameterLists(_)
\* the parameter lists of length n
ParameterLists(n) ==
    IF n = 0 THEN {<<>>}
    ELSE {Append(l, v) : l \in ParameterLists(n - 1), v \in Parameters}

UnchangedButSort ==
    UNCHANGED <<path, prev_path, start_from_root, envs, call_stack, trace,
                output, outcome, nlines, last, lexin, lexout, lexeof, ptext,
                past, ptext2, past2, pstage, threads>>

\* a command is about to be invoked with the parameters args
InitSort ==
    /\ InitSession /\ IdleLexer /\ IdleParser /\ IdleThreads
    /\ sort_in \in UNION {ParameterLists(n) : n \in 0..MaxArgs}
    /\ sort_out = NoneV

\* args, kwargs, opargs = sort_args(...), repl.py:959
SortArgs ==
    /\ sort_out = NoneV
    /\ sort_out' = sort_args(sort_in)
    /\ UNCHANGED sort_in
    /\ UnchangedButSort

NextSort == SortArgs

SpecSort == InitSort /\ [][NextSort]_vars

-----------------------------------------------------------------------------
(* The parser at work: a text is parsed; its statements are then evaluated *)
(* by process(), or unparsed and the rendered text parsed again.           *)

Operands == {<<"1">>, <<"2">>, <<"3">>, <<"5">>}
OperatorTexts ==
    {<<"+">>, <<"-">>, <<"*">>, <<"/">>, <<"a", "n", "d">>, <<"o", "r">>,
     <<"n", "o", "t">>, <<"~", "=">>, <<">">>, <<"<">>, <<">", "=">>,
     <<"<", "=">>, <<"=", "=">>, <<"!", "=">>}

RECURSIVE Spaced(_)
\* the words with one blank between them
Spaced(words) ==
    IF Len(words) = 1 THEN words[1]
    ELSE words[1] \o <<" ">> \o Spaced(Tail(words))

Text3(a, o1, b, o2, c) == Spaced(<<<<"x">>, <<"=">>, a, o1, b, o2, c>>)
Text4(a, b, c, d) ==
    Spaced(<<<<"x">>, <<"=">>, a, <<"+">>, b, <<"*">>, c, <<">">>, d>>)

OtherTexts ==
    {Spaced(<<<<"x">>, <<"=">>, <<"(">>, <<"1">>, <<"+">>, <<"2">>, <<")">>, <<"*">>, <<"3">>>>),
     Spaced(<<<<"x">>, <<"=">>, <<"1">>, <<"+">>, <<"(">>, <<"2">>, <<"*">>, <<"3">>, <<")">>>>),
     Spaced(<<<<"x">>, <<"=">>, <<"(">>, <<"1">>, <<"+">>, <<"2">>, <<")">>>>),
     Spaced(<<<<"x">>, <<"=">>, <<"-">>, <<"1">>>>),
     Spaced(<<<<"x">>, <<"=">>, <<"-">>, <<"1">>, <<"*">>, <<"2">>>>),
     Spaced(<<<<"x">>, <<"=">>, <<"-">>, <<"1">>, <<"+">>, <<"2">>>>),
     Spaced(<<<<"x">>, <<"=">>, <<"n", "o", "t">>, <<"1">>, <<"=", "=">>, <<"2">>>>),
     Spaced(<<<<"x">>, <<"=">>, <<"n", "o", "t">>, <<"t", "r", "u", "e">>>>),
     Spaced(<<<<"x">>, <<"=">>, <<"a">>, <<"+">>, <<"b">>, <<"*">>, <<"c">>, <<">">>, <<"d">>>>),
     Spaced(<<<<"x">>, <<"=">>, <<"t", "r", "u", "e">>>>),
     Spaced(<<<<"x">>, <<"=">>, <<"n", "o", "n", "e">>>>),
     Spaced(<<<<"x">>, <<"=">>, <<"0", "x", "1", "F">>>>),
     Spaced(<<<<"x">>, <<"=">>, <<"1", "0", "k">>>>),
     Spaced(<<<<"x">>, <<"=">>, <<"1">>, <<";">>, <<"y">>, <<"=">>, <<"x">>, <<"+">>, <<"1">>>>),
     Spaced(<<<<"x">>, <<"=">>, <<"1">>, <<"+">>>>),
     Spaced(<<<<"x">>, <<"=">>, <<"(">>, <<"1">>>>),
     Spaced(<<<<"r", "e", "t", "u", "r", "n">>, <<"1">>>>),
     <<"r", "e", "t", "u", "r", "n">>,
     <<"b", "r", "e", "a", "k">>,
     Spaced(<<<<"u", "n", "d", "e", "f">>, <<"x">>>>)}

ParseTexts ==
    {Text3(<<"1">>, o1, <<"2">>, o2, <<"3">>) : o1 \in OperatorTexts, o2 \in OperatorTexts}
        \cup {Text4(a, b, c, d) : a \in Operands, b \in Operands,
                                  c \in Operands, d \in Operands}
        \cup OtherTexts

UnchangedSession ==
    UNCHANGED <<path, prev_path, start_from_root, envs, call_stack, trace,
                output, outcome, nlines, last, lexin, lexout, lexeof, threads,
                sort_in, sort_out>>

\* ast = parse(text, '<stdin>')
Parse(text) ==
    /\ pstage = "idle"
    /\ ptext' = text
    /\ past' = parse(text)
    /\ pstage' = "parsed"
    /\ UNCHANGED <<ptext2, past2>>
    /\ UnchangedSession

\* text2 = unparse(ast)
Unparse ==
    /\ pstage = "parsed" /\ past.ok
    /\ ptext2' = unparse_list(past.ast)
    /\ pstage' = "unparsed"
    /\ UNCHANGED <<ptext, past, past2>>
    /\ UnchangedSession

\* ast2 = parse(text2, '<stdin>')
Reparse ==
    /\ pstage = "unparsed"
    /\ past2' = parse(ptext2)
    /\ pstage' = "reparsed"
    /\ UNCHANGED <<ptext, past, ptext2>>
    /\ UnchangedSession

\* process(line) of the text parsed: the statement loop over its tokens
Evaluate ==
    /\ pstage = "parsed"
    /\ Commit(process(IF past.ok THEN Line("", FALSE, "stmts", past.ast)
                      ELSE Line("", FALSE, "syntax", <<>>),
                      Session("ok")))
    /\ pstage' = "evaluated"
    /\ UNCHANGED <<nlines, last, lexin, lexout, lexeof, ptext, past, ptext2,
                   past2, threads, sort_in, sort_out>>

NextParse ==
    \/ \E text \in ParseTexts : Parse(text)
    \/ Unparse
    \/ Reparse
    \/ Evaluate

SpecParse == Init /\ [][NextParse]_vars

-----------------------------------------------------------------------------
(* The terminal: the thread of MainLoop.repl, which processes the lines,   *)
(* and the thread on which the RPC connection calls Context.handle_event.  *)
(* A step of a thread is one write to sys.stdout or one access to the lock, *)
(* to event_divert or to event_queue.                                      *)

MaxStatements == 2
MaxChunks == 3
MaxEvents == 2
Events == {"task.progress", "task.updated", "service.started"}

UnchangedLanguage ==
    UNCHANGED <<path, prev_path, start_from_root, envs, call_stack, trace,
                output, outcome, nlines, last, lexin, lexout, lexeof, ptext,
                past, ptext2, past2, pstage, sort_in, sort_out, subscriber_thread,
                dispatcher, submit, task_callbacks, callback_calls>>

\* MainLoop.repl reads a line and process() starts on it, repl.py:742-753;
\* the statements of the line will make `total` calls of output_msg
MainProcess(total) ==
    /\ main_thread.pc = "input"
    /\ main_thread.n < MaxStatements
    /\ main_thread' = [pc |-> "process", left |-> total, total |-> total,
                       n |-> main_thread.n + 1]
    /\ UNCHANGED <<output_lock, event_divert, event_queue, callback_thread>>
    /\ UnchangedLanguage

\* one output_msg or format_output call of process(), repl.py:1075-1088: it
\* writes to sys.stdout and takes no lock; process() returns after the last
MainOutput ==
    /\ main_thread.pc = "process"
    /\ main_thread' = IF main_thread.left = 1
                      THEN [main_thread EXCEPT !.pc = "input", !.left = 0, !.total = 0]
                      ELSE [main_thread EXCEPT !.left = @ - 1]
    /\ UNCHANGED <<output_lock, event_divert, event_queue, callback_thread>>
    /\ UnchangedLanguage

\* the line runs ClearCommand: output_lock.acquire(), src/commands.py:337
MainClearAcquire ==
    /\ main_thread.pc = "input"
    /\ main_thread.n < MaxStatements
    /\ output_lock = "free"
    /\ output_lock' = "main"
    /\ main_thread' = [main_thread EXCEPT !.pc = "clear", !.n = @ + 1]
    /\ UNCHANGED <<event_divert, event_queue, callback_thread>>
    /\ UnchangedLanguage

\* os.system('clear'); output_lock.release(), src/commands.py:338-339
MainClearRelease ==
    /\ main_thread.pc = "clear"
    /\ output_lock' = "free"
    /\ main_thread' = [main_thread EXCEPT !.pc = "input"]
    /\ UNCHANGED <<event_divert, event_queue, callback_thread>>
    /\ UnchangedLanguage

\* the line runs a command that calls Context.submit_task with tasks_blocking
\* set: output_msg("Hit Ctrl+C ..."), repl.py:514
MainSubmitTask ==
    /\ main_thread.pc = "input"
    /\ main_thread.n < MaxStatements
    /\ main_thread' = [main_thread EXCEPT !.pc = "submit_task", !.n = @ + 1]
    /\ UNCHANGED <<output_lock, event_divert, event_queue, callback_thread>>
    /\ UnchangedLanguage

\* self.event_divert = True, repl.py:515
MainDivert ==
    /\ main_thread.pc = "submit_task"
    /\ event_divert' = TRUE
    /\ main_thread' = [main_thread EXCEPT !.pc = "wait"]
    /\ UNCHANGED <<output_lock, event_queue, callback_thread>>
    /\ UnchangedLanguage

\* `event, data = self.event_queue.get()` of the wait loop, repl.py:519-534:
\* the task's task.updated event ends the loop, and event_divert is reset
\* (repl.py:542)
MainTaskEvent ==
    /\ main_thread.pc = "wait"
    /\ event_queue # <<>>
    /\ event_queue' = Tail(event_queue)
    /\ IF Head(event_queue) = "task.updated"
       THEN /\ event_divert' = FALSE
            /\ main_thread' = [main_thread EXCEPT !.pc = "input"]
       ELSE UNCHANGED <<event_divert, main_thread>>
    /\ UNCHANGED <<output_lock, callback_thread>>
    /\ UnchangedLanguage

\* Context.handle_event -> print_event up to the lock, repl.py:466-472
CallbackEvent(event) ==
    /\ callback_thread.pc = "idle"
    /\ callback_thread.n < MaxEvents
    /\ IF event_divert
       THEN /\ event_queue' = Append(event_queue, event)
            /\ callback_thread' = [callback_thread EXCEPT !.n = @ + 1]
       ELSE /\ event_queue' = event_queue
            /\ callback_thread' =
                   [pc |-> IF event = "task.progress" THEN "idle" ELSE "acquire",
                    n |-> callback_thread.n + 1]
    /\ UNCHANGED <<output_lock, event_divert, main_thread>>
    /\ UnchangedLanguage

\* output_lock.acquire(), repl.py:474
CallbackAcquire ==
    /\ callback_thread.pc = "acquire"
    /\ output_lock = "free"
    /\ output_lock' = "callback"
    /\ callback_thread' = [callback_thread EXCEPT !.pc = "blank_readline"]
    /\ UNCHANGED <<event_divert, event_queue, main_thread>>
    /\ UnchangedLanguage

\* the writes of print_event under the lock, repl.py:475-491:
\* blank_readline, then output_msg(translation), then restore_readline
CallbackWrite ==
    /\ callback_thread.pc \in {"blank_readline", "output_msg", "restore_readline"}
    /\ callback_thread' =
           [callback_thread EXCEPT !.pc =
               CASE @ = "blank_readline" -> "output_msg"
                 [] @ = "output_msg" -> "restore_readline"
                 [] @ = "restore_readline" -> "release"]
    /\ UNCHANGED <<output_lock, event_divert, event_queue, main_thread>>
    /\ UnchangedLanguage

\* output_lock.release(), repl.py:492
CallbackRelease ==
    /\ callback_thread.pc = "release"
    /\ output_lock' = "free"
    /\ callback_thread' = [callback_thread EXCEPT !.pc = "idle"]
    /\ UNCHANGED <<event_divert, event_queue, main_thread>>
    /\ UnchangedLanguage

NextOut ==
    \/ \E total \in 1..MaxChunks : MainProcess(total)
    \/ MainOutput
    \/ MainClearAcquire
    \/ MainClearRelease
    \/ MainSubmitTask
    \/ MainDivert
    \/ MainTaskEvent
    \/ \E event \in Events : CallbackEvent(event)
    \/ CallbackAcquire
    \/ CallbackWrite
    \/ CallbackRelease

SpecOut == Init /\ [][NextOut]_vars

-----------------------------------------------------------------------------
(* Navigation and the notifications of the entity subscribers.  The main    *)
(* thread processes lines; the thread of the RPC connection delivers the    *)
(* on_delete notification of an entity to the namespace that listed it,     *)
(* which leaves the namespace of that entity with MainLoop.cd_up.  Neither  *)
(* thread takes a lock around path and prev_path, so the statements of      *)
(* cd_up interleave with the lines of the main thread.                      *)

\* the namespaces of single entities: b is the entity b of the list a
SingleItemNamespaces == {"b"}
\* the entities the subscriber reports as deleted
Entities == {"b", "gone"}

UnchangedButPaths ==
    UNCHANGED <<start_from_root, envs, call_stack, trace, output, outcome,
                nlines, last, lexin, lexout, lexeof, ptext, past, ptext2, past2,
                pstage, sort_in, sort_out, output_lock, event_divert,
                event_queue, main_thread, callback_thread, dispatcher, submit,
                task_callbacks, callback_calls>>

\* on_delete up to the call of cd_up, namespace.py:1069-1072
OnDelete(entity) ==
    /\ subscriber_thread.pc = "idle"
    /\ path # <<>>
    /\ subscriber_thread' =
          [pc |-> IF Last(path) \in SingleItemNamespaces /\ Last(path) = entity
                  THEN "cd_up" ELSE "idle"]
    /\ UNCHANGED <<path, prev_path>>
    /\ UnchangedButPaths

\* `if not self.cwd.on_leave(): return`; `self.prev_path = self.path[:]`,
\* repl.py:719-722
CdUpLeave ==
    /\ subscriber_thread.pc = "cd_up"
    /\ path # <<>>
    /\ IF on_leave(Last(path))
       THEN prev_path' = path /\ subscriber_thread' = [pc |-> "len"]
       ELSE UNCHANGED prev_path /\ subscriber_thread' = [pc |-> "idle"]
    /\ UNCHANGED path
    /\ UnchangedButPaths

\* `if len(self.path) > 1:`, repl.py:723
CdUpLen ==
    /\ subscriber_thread.pc = "len"
    /\ subscriber_thread' = [pc |-> IF Len(path) > 1 THEN "del" ELSE "on_enter"]
    /\ UNCHANGED <<path, prev_path>>
    /\ UnchangedButPaths

\* `del self.path[-1]`, repl.py:724
CdUpDel ==
    /\ subscriber_thread.pc = "del"
    /\ path # <<>>
    /\ path' = Front(path)
    /\ subscriber_thread' = [pc |-> "on_enter"]
    /\ UNCHANGED prev_path
    /\ UnchangedButPaths

\* `self.cwd.on_enter()`, repl.py:725
CdUpEnter ==
    /\ subscriber_thread.pc = "on_enter"
    /\ path # <<>>
    /\ subscriber_thread' = [pc |-> "idle"]
    /\ UNCHANGED <<path, prev_path>>
    /\ UnchangedButPaths

\* the main thread processes a line; with no path left, MainLoop.cwd raises
\* IndexError in whatever either thread does next
NextNav ==
    \/ \E i \in 1..Len(NavLines), orc \in Oracles :
           path # <<>> /\ Process(NavLines[i], orc)
    \/ \E entity \in Entities : OnDelete(entity)
    \/ CdUpLeave
    \/ CdUpLen
    \/ CdUpDel
    \/ CdUpEnter

SpecNav == Init /\ [][NextNav]_vars

-----------------------------------------------------------------------------
(* Tasks.  A command submits a task with Context.submit_task; the server    *)
(* runs it and sends `task.updated` events, which the thread of the         *)
(* connection hands to Context.handle_event one at a time.                  *)

\* the calls of submit_task in a session
MaxSubmits == 1

\* the states handle_task_callback takes for the end of a task, repl.py:463
TerminalStates == {"FINISHED", "CANCELLED", "ABORTED", "FAILED"}

updated(id, state) == [event |-> "task.updated", id |-> id, state |-> state]

UnchangedButTasks ==
    UNCHANGED <<path, prev_path, start_from_root, envs, call_stack, trace,
                outcome, nlines, last, lexin, lexout, lexeof, ptext, past,
                ptext2, past2, pstage, sort_in, sort_out, output_lock,
                main_thread, callback_thread, subscriber_thread>>

\* submit_task(name, ..., callback=...) is called, repl.py:503-507, 513;
\* blocking is the configuration variable tasks_blocking
SubmitTask(blocking, callback) ==
    /\ submit.pc = "idle"
    /\ submit.calls < MaxSubmits
    /\ submit' = [submit EXCEPT !.pc = IF blocking THEN "divert" ELSE "call",
                                !.blocking = blocking, !.callback = callback,
                                !.tid = 0, !.seen = "none", !.calls = @ + 1]
    /\ output' = IF blocking THEN Append(output, [msg |-> "Hit Ctrl+C"]) ELSE output
    /\ UNCHANGED <<event_divert, event_queue, dispatcher, task_callbacks,
                   callback_calls>>
    /\ UnchangedButTasks

\* self.event_divert = True, repl.py:515
SubmitDivert ==
    /\ submit.pc = "divert"
    /\ event_divert' = TRUE
    /\ submit' = [submit EXCEPT !.pc = "call"]
    /\ UNCHANGED <<output, event_queue, dispatcher, task_callbacks, callback_calls>>
    /\ UnchangedButTasks

\* tid = self.connection.call_sync('task.submit', name, args), repl.py:508
\* and 516: the server creates the task and answers with its id, or the call
\* raises and the exception leaves submit_task
SubmitCall(ok) ==
    /\ submit.pc = "call"
    /\ IF ok
       THEN /\ dispatcher' = [dispatcher EXCEPT !.tasks = Append(@, "CREATED")]
            /\ submit' = [submit EXCEPT
                             !.pc = IF submit.blocking THEN "wait" ELSE "register",
                             !.tid = Len(dispatcher.tasks) + 1,
                             !.passed = IF submit.callback
                                        THEN @ \cup {Len(dispatcher.tasks) + 1}
                                        ELSE @]
       ELSE /\ UNCHANGED dispatcher
            /\ submit' = [submit EXCEPT !.pc = "idle"]
    /\ UNCHANGED <<output, event_divert, event_queue, task_callbacks, callback_calls>>
    /\ UnchangedButTasks

\* `if callback: self.task_callbacks[tid] = callback`; `return tid`,
\* repl.py:509-512
SubmitRegister ==
    /\ submit.pc = "register"
    /\ task_callbacks' = IF submit.callback THEN task_callbacks \cup {submit.tid}
                         ELSE task_callbacks
    /\ submit' = [submit EXCEPT !.pc = "idle"]
    /\ UNCHANGED <<output, event_divert, event_queue, dispatcher, callback_calls>>
    /\ UnchangedButTasks

\* one turn of the wait loop, repl.py:519-536: the next event of the queue;
\* the loop ends on `task.updated` of the task with FINISHED or FAILED
SubmitWait ==
    /\ submit.pc = "wait"
    /\ event_queue # <<>>
    /\ event_queue' = Tail(event_queue)
    /\ LET e == Head(event_queue) IN
       IF e.event = "task.updated" /\ e.id = submit.tid
       THEN submit' = [submit EXCEPT !.seen = e.state,
                          !.pc = IF e.state \in {"FINISHED", "FAILED"}
                                 THEN "reset" ELSE "wait"]
       ELSE UNCHANGED submit
    /\ UNCHANGED <<output, event_divert, dispatcher, task_callbacks, callback_calls>>
    /\ UnchangedButTasks

\* Ctrl+C in the wait loop, repl.py:537-540: the task is aborted on the
\* server if it has not ended
SubmitInterrupt ==
    /\ submit.pc = "wait"
    /\ output' = Append(output, [msg |-> "User requested task termination"])
    /\ dispatcher' =
          IF dispatcher.tasks[submit.tid] \in TerminalStates THEN dispatcher
          ELSE [tasks |-> [dispatcher.tasks EXCEPT ![submit.tid] = "ABORTED"],
                events |-> Append(dispatcher.events, updated(submit.tid, "ABORTED"))]
    /\ submit' = [submit EXCEPT !.pc = "reset"]
    /\ UNCHANGED <<event_divert, event_queue, task_callbacks, callback_calls>>
    /\ UnchangedButTasks

\* self.event_divert = False; return tid, repl.py:542-543
SubmitReturn ==
    /\ submit.pc = "reset"
    /\ event_divert' = FALSE
    /\ submit' = [submit EXCEPT !.pc = "idle"]
    /\ UNCHANGED <<output, event_queue, dispatcher, task_callbacks, callback_calls>>
    /\ UnchangedButTasks

\* the server moves a task on: it starts, or it ends in one of the terminal
\* states (ABORTED and CANCELLED are the work of another client or of the
\* server itself); every change is sent as a `task.updated` event
TaskUpdate(id, state) ==
    /\ id \in 1..Len(dispatcher.tasks)
    /\ \/ dispatcher.tasks[id] = "CREATED" /\ state = "EXECUTING"
       \/ dispatcher.tasks[id] \in {"CREATED", "EXECUTING"} /\ state \in TerminalStates
    /\ dispatcher' = [tasks |-> [dispatcher.tasks EXCEPT ![id] = state],
                      events |-> Append(dispatcher.events, updated(id, state))]
    /\ UNCHANGED <<output, event_divert, event_queue, submit, task_callbacks,
                   callback_calls>>
    /\ UnchangedButTasks

\* Context.handle_event for the next event, repl.py:455-472: the callback of
\* the task, then print_event, which queues the event or prints it
HandleEvent ==
    /\ dispatcher.events # <<>>
    /\ LET e == Head(dispatcher.events) IN
       /\ dispatcher' = [dispatcher EXCEPT !.events = Tail(@)]
       /\ callback_calls' =
             IF e.event = "task.updated" /\ e.id \in task_callbacks
                /\ e.state \in TerminalStates
             THEN Append(callback_calls, [id |-> e.id, state |-> e.state])
             ELSE callback_calls
       /\ IF event_divert
          THEN event_queue' = Append(event_queue, e) /\ UNCHANGED output
          ELSE /\ output' = Append(output, [msg |-> "event", event |-> e])
               /\ UNCHANGED event_queue
    /\ UNCHANGED <<event_divert, submit, task_callbacks>>
    /\ UnchangedButTasks

NextTask ==
    \/ \E blocking \in BOOLEAN, callback \in BOOLEAN : SubmitTask(blocking, callback)
    \/ SubmitDivert
    \/ \E ok \in BOOLEAN : SubmitCall(ok)
    \/ SubmitRegister
    \/ SubmitWait
    \/ SubmitInterrupt
    \/ SubmitReturn
    \/ \E id \in 1..MaxSubmits, state \in TerminalStates \cup {"EXECUTING"} :
          TaskUpdate(id, state)
    \/ HandleEvent

SpecTask == Init /\ [][NextTask]_vars

-----------------------------------------------------------------------------
(* What the last line did, read from the trace *)

\* the run() calls of command cmd, in order
Runs(cmd) == SelectSeq(trace, LAMBDA e : e.ev = "run" /\ e.cmd = cmd)
\* the positional arguments of the run() calls of command cmd, in order
RunArgs(cmd) == [i \in 1..Len(Runs(cmd)) |-> Runs(cmd)[i].args]
\* every run() call, in order: the command and the input it was handed
AllRuns ==
    LET runs == SelectSeq(trace, LAMBDA e : e.ev = "run")
    IN  [i \in 1..Len(runs) |-> [cmd |-> runs[i].cmd, input |-> runs[i].input]]
\* the value the body of pipe command cmd returns for an input
Piped(cmd, input) == [t |-> "piped", by |-> cmd, of |-> input]
\* the find_in_scope calls, in order
Resolutions == SelectSeq(trace, LAMBDA e : e.ev = "find_in_scope")
\* the query() calls of the namespace, in order
Queries == SelectSeq(trace, LAMBDA e : e.ev = "query")
IsPrefix(s, t) == Len(s) <= Len(t) /\ SubSeq(t, 1, Len(s)) = s
Ints(ns) == [i \in 1..Len(ns) |-> <<IntV(ns[i])>>]

-----------------------------------------------------------------------------
(* C1 *)

C1_Case == last.text = "a b c arg=1" /\ last.path = <<Root>>

\* C1, as amended: at the root, `a b c arg=1` resolves a in the root, then b
\* in a, then c in b, runs c exactly once with no positional arguments, the
\* keyword arguments {arg: 1} and no operator arguments, and leaves the
\* navigation path where it was, at the root: a and b are entered on the
\* statement's own path only.
C1_Amended ==
    C1_Case =>
        /\ Resolutions = << [ev |-> "find_in_scope", token |-> "a", cwd |-> Root],
                            [ev |-> "find_in_scope", token |-> "b", cwd |-> "a"],
                            [ev |-> "find_in_scope", token |-> "c", cwd |-> "b"] >>
        /\ Len(Runs("c")) = 1
        /\ Runs("c")[1].ns = "b"
        /\ Runs("c")[1].args = <<>>
        /\ Runs("c")[1].kwargs = ("arg" :> IntV(1))
        /\ Runs("c")[1].opargs = <<>>
        /\ path = <<Root>>

\* C1 as stated: the statement leaves the navigation path at root/a/b
C1_Original == C1_Case => path = <<Root, "a", "b">>

C1_Witness == C1_Case /\ Len(Runs("c")) = 1 /\ outcome.exc = "none"

-----------------------------------------------------------------------------
(* C2 *)

C2_Case == last.text = "show | search name == root | sort name"
              /\ last.cwd = <<Root, "u">>

C2_Pushed ==
    [filter |-> <<TupleV("name", "=", StrV("root"))>>,
     params |-> ("sort" :> <<StrV("name")>>)]

\* C2: in namespace u, `show | search name == root | sort name` runs show
\* exactly once, with the filter [(name, =, root)] and the sort key name of
\* the stages to its right; the namespace's query is called at most once
\* (exactly once when the statement succeeds) and only with those predicates.
C2_PushedDownOnce ==
    C2_Case =>
        /\ Len(Runs("show")) = 1
        /\ Runs("show")[1].filtering = C2_Pushed
        /\ Len(Queries) <= 1
        /\ outcome.exc = "none" => Len(Queries) = 1
        /\ \A i \in 1..Len(Queries) :
              /\ Queries[i].params = <<TupleV("name", "=", StrV("root"))>>
              /\ Queries[i].options = ("sort" :> <<"name">>)

C2_Witness == C2_Case /\ Len(Queries) = 1 /\ outcome.exc = "none"

-----------------------------------------------------------------------------
(* C3 *)

\* C3: a `break` reached directly in the body of the innermost of nested
\* loops ends that loop only: the statement after it is not run, the loop
\* does not iterate again, and the enclosing loops run their remaining
\* statements and iterations.  The runs of c show what was evaluated.
C3_BreakEndsInnermost ==
    /\ (last.text = "for for break" /\ last.path = <<Root>>) =>
          /\ IsPrefix(RunArgs("c"), Ints(<<3, 1, 3, 2>>))
          /\ outcome.exc = "none" => RunArgs("c") = Ints(<<3, 1, 3, 2>>)
    /\ (last.text = "for for while break" /\ last.path = <<Root>>) =>
          /\ IsPrefix(RunArgs("c"), Ints(<<3, 8, 1, 3, 8, 2>>))
          /\ outcome.exc = "none" => RunArgs("c") = Ints(<<3, 8, 1, 3, 8, 2>>)

C3_Witness ==
    /\ last.text = "for for while break"
    /\ outcome.exc = "none"
    /\ RunArgs("c") = Ints(<<3, 8, 1, 3, 8, 2>>)

-----------------------------------------------------------------------------
(* C4 *)

C4_Case == last.text = "function f; x = f(); a b c ${x}"

\* C4: `return i` in an `if` in a `for` in the function f makes the call f()
\* evaluate to the value of i in the first iteration: x is bound to 1, none
\* of the statements after the return (91 in the if block, 92 in the loop
\* body, 93 after the loop) is run, the loop does not iterate again, and the
\* caller goes on to its next statement, which runs c with x.
C4_ReturnLeavesFunction ==
    C4_Case =>
        /\ "x" \in DOMAIN envs[1].vars
        /\ envs[1].vars["x"] = Variable(IntV(1))
        /\ Len(call_stack) = last.depth
        /\ last.path = <<Root>> => RunArgs("c") = Ints(<<1>>)
        /\ \A i \in 1..Len(RunArgs("c")) : RunArgs("c")[i] = <<IntV(1)>>

C4_Witness == C4_Case /\ RunArgs("c") = Ints(<<1>>) /\ outcome.exc = "none"

-----------------------------------------------------------------------------
(* C5 *)

C5_Case == last.text = "function g(a, b) { p = a; q = b }; g(1)"

\* the environments of the calls of g: those in which the body bound p
C5_CallEnvs == {e \in 2..Len(envs) : "p" \in DOMAIN envs[e].vars}

\* where the lookup of a name goes after the environments: the builtin
\* commands, the child namespaces and commands of the current namespace, and
\* the configuration variables of the CLI
C5_InScope(name, cwd) ==
    \/ name \in builtin_commands
    \/ name \in SeqToSet(namespaces(cwd))
    \/ name \in commands(cwd)
    \/ name \in ConfigVariables

\* C5, as amended: g(a, b) called with one argument binds a to it and binds
\* b to nothing; a reference to b in the body, when b is bound nowhere in
\* the closure chain and names no builtin command, no child namespace or
\* command of the current namespace and no configuration variable of the
\* CLI, fails as an unresolved name; when b names one of these, the
\* reference evaluates to it.
C5_Amended ==
    C5_Case =>
        /\ C5_CallEnvs # {}
        /\ \A e \in C5_CallEnvs :
              /\ envs[e].vars["a"] = Variable(IntV(1))
              /\ "b" \notin DOMAIN envs[e].vars
        /\ ~C5_InScope("b", Last(last.cwd)) =>
              /\ outcome = [ended |-> "returned", exc |-> "SyntaxError",
                            handler |-> "statement"]
              /\ \A e \in C5_CallEnvs : "q" \notin DOMAIN envs[e].vars
        /\ C5_InScope("b", Last(last.cwd)) => outcome.exc = "none"

\* C5 as stated: the reference to b fails as an unresolved name
C5_Original == C5_Case => outcome.exc = "SyntaxError"

C5_Witness == C5_Case /\ last.path = <<Root>> /\ outcome.exc = "SyntaxError"

-----------------------------------------------------------------------------
(* C6 *)

\* C6: for every statement the grammar accepts that holds no comment,
\* parsing the text that unparse renders of its AST gives the same AST
\* again: the same node kinds, operators, names, literal values and nesting.
C6_RoundTrip ==
    (pstage = "reparsed" /\ past.ok) => (past2.ok /\ past2.ast = past.ast)

-----------------------------------------------------------------------------
(* C7 *)

\* the documented table, lowest level first
C7_Level(op) ==
    CASE op \in {"+", "-"} -> 1 [] op \in {"*", "/"} -> 2
      [] op \in {"and", "or"} -> 3 [] op = "not" -> 4 [] op = "~=" -> 5
      [] op \in {">", "<"} -> 6 [] op \in {">=", "<="} -> 7
      [] op \in {"==", "!="} -> 8

C7_Assigned(e) == Parsed(<<AssignmentStatement("x", e)>>)

\* `1 o1 2 o2 3` is parsed by the table: o2 takes the 2 when its level is
\* the higher one, or the same one and that level is in `right`; else o1
C7_ByTable(right) ==
    \A o1 \in OperatorTexts, o2 \in OperatorTexts :
        (pstage # "idle" /\ ptext = Text3(<<"1">>, o1, <<"2">>, o2, <<"3">>))
        => past = C7_Assigned(
             IF \/ C7_Level(str(o2)) > C7_Level(str(o1))
                \/ C7_Level(str(o2)) = C7_Level(str(o1)) /\ C7_Level(str(o1)) \in right
             THEN BinaryExpr(IntLit(1), str(o1),
                             BinaryExpr(IntLit(2), str(o2), IntLit(3)))
             ELSE BinaryExpr(BinaryExpr(IntLit(1), str(o1), IntLit(2)),
                             str(o2), IntLit(3)))

C7_Int(digit) == DigitValue(digit[1])

\* `a + b * c > d` is parsed as a + (b * (c > d)) and evaluates to that
C7_Comparison ==
    \A a \in Operands, b \in Operands, c \in Operands, d \in Operands :
        (pstage # "idle" /\ ptext = Text4(a, b, c, d))
        => /\ past = C7_Assigned(
                 BinaryExpr(IntLit(C7_Int(a)), "+",
                    BinaryExpr(IntLit(C7_Int(b)), "*",
                       BinaryExpr(IntLit(C7_Int(c)), ">", IntLit(C7_Int(d))))))
           /\ pstage = "evaluated"
                 => /\ outcome.exc = "none"
                    /\ envs[1].vars["x"].v =
                          IntV(C7_Int(a) + C7_Int(b)
                                  * (IF C7_Int(c) > C7_Int(d) THEN 1 ELSE 0))

\* C7 as amended: binary operators bind by the documented table, {+,-} <
\* {*,/} < {and,or} < not < ~= < {>,<} < {>=,<=} < {==,!=}; operators of one
\* level associate to the left, except `not` taken as a binary operator,
\* which associates to the right; `a + b * c > d` is parsed and evaluated as
\* a + (b * (c > d)).
C7_Amended == C7_ByTable({4}) /\ C7_Comparison

\* C7 as claimed: the operators of every level associate to the left.
C7_Original == C7_ByTable({}) /\ C7_Comparison

\* `x = 1 + 2 * 3 > 5` has been evaluated and x is 1 + (2 * (3 > 5)) = 1,
\* not the True of (1 + (2 * 3)) > 5
C7_Witness ==
    /\ pstage = "evaluated"
    /\ ptext = Text4(<<"1">>, <<"2">>, <<"3">>, <<"5">>)
    /\ envs[1].vars["x"].v = IntV(1)

-----------------------------------------------------------------------------
(* C8 *)

AllIn(s, class) == \A j \in 1..Len(s) : s[j] \in class
Unit(i) == CASE i = 1 -> {"k", "K"} [] i = 2 -> {"m", "M"}
             [] i = 3 -> {"g", "G"} [] i = 4 -> {"t", "T"}
Zeros(i) == [j \in 1..i |-> 0]
\* n * 1000^i in limbs: i limbs of zero under the limbs of n
Thousands(n, i) == IF int(n, 10) = <<>> THEN <<>> ELSE Zeros(i) \o int(n, 10)
LexedTo(type, value) == lexout = <<[type |-> type, value |-> value]>>

\* lexin is n+u+tail, n a decimal digit string, u the unit letter of 1000^i
C8_Sized(n, i, tail) ==
    /\ Len(n) > 0 /\ AllIn(n, Digit)
    /\ \E u \in Unit(i) : lexin = n \o <<u>> \o tail

C8_Decimal(n, i) ==
    \E tail \in {<<>>, <<"b">>, <<"B">>} : C8_Sized(n, i, tail)
C8_Binary(n, i) ==
    \E tail \in {<<"i", "b">>, <<"i", "B">>, <<"I", "b">>, <<"I", "B">>} :
        C8_Sized(n, i, tail)
C8_Prefixed(letter, digits) ==
    /\ Len(lexin) > 2 /\ lexin[1] = "0" /\ lexin[2] = letter
    /\ AllIn(SubSeq(lexin, 3, Len(lexin)), digits)

\* C8: a decimal digit string n with a unit letter of any case (k, m, g, t
\* for i = 1..4), alone or followed by b, lexes to the one integer
\* n * 1000^i; followed by ib it lexes to n * 1024^i; a digit string
\* prefixed by 0x, 0o or 0b lexes to its base-16, base-8 or base-2 value;
\* 10k is 10000, 10kib is 10240, 0x1F is 31 and 0b101 is 5.
C8_SizesAndBases ==
    /\ \A d \in 1..Len(lexin), i \in 1..4 :
          /\ C8_Decimal(SubSeq(lexin, 1, d), i)
                => LexedTo("NUMBER", Thousands(SubSeq(lexin, 1, d), i))
          /\ C8_Binary(SubSeq(lexin, 1, d), i)
                => LexedTo("NUMBER", Times(int(SubSeq(lexin, 1, d), 10), 1024, i))
    /\ C8_Prefixed("x", HexDigit)
          => LexedTo("HEXNUMBER", int(SubSeq(lexin, 3, Len(lexin)), 16))
    /\ C8_Prefixed("o", {"0", "1", "2", "3", "4", "5", "6", "7"})
          => LexedTo("OCTNUMBER", int(SubSeq(lexin, 3, Len(lexin)), 8))
    /\ C8_Prefixed("b", {"0", "1"})
          => LexedTo("BINNUMBER", int(SubSeq(lexin, 3, Len(lexin)), 2))
    /\ lexin = <<"1", "0", "k">> => LexedTo("NUMBER", <<0, 10>>)
    /\ lexin = <<"1", "0", "k", "i", "b">> => LexedTo("NUMBER", <<240, 10>>)
    /\ lexin = <<"0", "x", "1", "F">> => LexedTo("HEXNUMBER", <<31>>)
    /\ lexin = <<"0", "b", "1", "0", "1">> => LexedTo("BINNUMBER", <<5>>)
    /\ lexin = <<"1", "2", "T", "i", "B">>
          => LexedTo("NUMBER", <<312, 533, 139, 194, 13>>)

\* the lexer has lexed 12TiB, of mixed case, to 12 * 1024^4
C8_Witness ==
    /\ lexin = <<"1", "2", "T", "i", "B">>
    /\ LexedTo("NUMBER", <<312, 533, 139, 194, 13>>)

-----------------------------------------------------------------------------
(* C9 *)

\* C9 as stated: when the evaluation of a statement of the line raised an
\* error, process() returns with the navigation path equal to the path
\* before the line
C9_PathRestored == outcome.handler = "statement" => path = last.path

-----------------------------------------------------------------------------
(* C10 *)

\* C10: an error raised while a statement is evaluated leaves process() only
\* when it is SystemExit; every other error is caught, process() returns
\* and the next line can be read.
C10_OnlySystemExitPropagates ==
    /\ outcome.ended = "raised" => outcome.exc = "SystemExit"
    /\ outcome.exc \notin {"none", "SystemExit"} => outcome.ended = "returned"
    /\ outcome.exc = "SystemExit" => outcome.ended = "raised"

C10_Witness == outcome.exc = "KeyboardInterrupt" /\ outcome.ended = "returned"

-----------------------------------------------------------------------------
(* C11 *)

\* the namespace the next statement is evaluated from: eval() starts by
\* resetting the path to the root when start_from_root is set
C11_Working(p, from_root) == IF from_root THEN <<Root>> ELSE p

\* C11 as stated: after process() returned for a line that failed to parse
\* (lines beginning with '/' included), the navigation path, the previous
\* path and the variable environments are those before the line, and the
\* next line is evaluated from the working namespace it would have been
\* evaluated from had the failing line not been entered
C11_ParseFailureIsLocal ==
    outcome.handler = "line" =>
        /\ path = last.path
        /\ prev_path = last.prev_path
        /\ envs = last.envs
        /\ C11_Working(path, start_from_root)
               = C11_Working(last.path, last.start_from_root)

-----------------------------------------------------------------------------
(* C12 *)

\* the environments the line created in which name is bound
BoundByLine(name) ==
    {e \in (Len(last.envs) + 1)..Len(envs) : name \in DOMAIN envs[e].vars}

\* C12 as stated: `x = 2` in a block whose environment chain holds the
\* binding of x made by `x = 1` updates that binding in place, one block
\* deep or two: no environment of a block gets a cell of its own for x, and
\* x reads 2 afterwards; `i = 5` in the body of a loop over i updates the
\* binding of the loop variable without an error.
C12_UpdatesInPlace ==
    /\ last.text \in {"x = 1; if (true) { x = 2 }",
                      "x = 1; if (true) { if (true) { x = 2 } }"} =>
          /\ outcome.exc = "none"
          /\ envs[1].vars["x"] = Variable(IntV(2))
          /\ BoundByLine("x") = {}
    /\ last.text = "for (i in [1, 2]) { i = 5 }" => outcome.exc = "none"

-----------------------------------------------------------------------------
(* C13 *)

C13_Case ==
    /\ last.text \in {"if (true) { y = 1; w = y }; z = y",
                      "for (i in [1]) { y = i; w = y }; z = y",
                      "function h() { y = 1; w = y }; h(); z = y"}
    /\ \A e \in 1..Len(last.envs) : "y" \notin DOMAIN last.envs[e].vars

\* C13: `y = 1` in the block of an if, in the body of a for loop or in the
\* body of a called function, y being bound nowhere, binds y in the
\* environment of that block or call and in no other: the block reads y as
\* 1, every environment that existed before the line keeps the bindings it
\* had (the global one gains only the function the line defines), and after
\* the block or call the read of y in `z = y` fails as an unresolved name.
C13_CreatedInnermost ==
    C13_Case =>
        /\ \A e \in 1..Len(last.envs) :
              /\ DOMAIN envs[e].vars \ {"h"} = DOMAIN last.envs[e].vars \ {"h"}
              /\ \A n \in DOMAIN last.envs[e].vars \ {"h"} :
                    envs[e].vars[n] = last.envs[e].vars[n]
        /\ Cardinality(BoundByLine("y")) = 1
        /\ \A e \in BoundByLine("y") :
              /\ envs[e].outer = 1
              /\ envs[e].vars["y"] = Variable(IntV(1))
              /\ "w" \in DOMAIN envs[e].vars
              /\ envs[e].vars["w"] = Variable(IntV(1))
        /\ outcome = [ended |-> "returned", exc |-> "SyntaxError",
                      handler |-> "statement"]

C13_Witness ==
    /\ C13_Case
    /\ last.text = "function h() { y = 1; w = y }; h(); z = y"
    /\ BoundByLine("y") # {}
    /\ outcome.exc = "SyntaxError"

-----------------------------------------------------------------------------
(* C14 *)

C14_Case == last.text = "a b c | sort name | limit 1" /\ last.cwd = <<Root>>

\* C14: in `a b c | sort name | limit 1`, c not being a FilteringCommand, c
\* is run once and has returned before a stage runs; sort then runs once
\* with the value c returned as its input, limit runs once with the value
\* sort returned as its input, and the value of limit is the pipe's; when c
\* raises, no stage runs.  In `limit 1 | sort name` the input of limit is
\* None: limit returns None without running its body, and so does sort.
C14_WholeValuePipe ==
    /\ C14_Case /\ outcome.exc = "none" =>
          /\ AllRuns = << [cmd |-> "c", input |-> Absent],
                          [cmd |-> "sort", input |-> StrV("done")],
                          [cmd |-> "limit", input |-> Piped("sort", StrV("done"))] >>
          /\ output = << [msg |-> "format_output",
                          value |-> Piped("limit", Piped("sort", StrV("done")))] >>
    /\ C14_Case /\ outcome.exc # "none" =>
          AllRuns = << [cmd |-> "c", input |-> Absent] >>
    /\ last.text = "limit 1 | sort name" =>
          /\ AllRuns = <<>>
          /\ output = <<>>
          /\ outcome.exc = "none"

C14_Witness == C14_Case /\ outcome.exc = "none" /\ Len(AllRuns) = 3

-----------------------------------------------------------------------------
(* C15 *)

\* the names of the statements that hold names only
C15_Names ==
    CASE last.text \in {"a", "/a"} -> <<"a">>
      [] last.text = "a b" -> <<"a", "b">>
      [] last.text = "b" -> <<"b">>
      [] last.text = "u" -> <<"u">>
      [] OTHER -> <<>>

RECURSIVE C15_Resolvable(_, _)
\* each name is a child namespace of the one before it, the first of ns
C15_Resolvable(ns, names) ==
    \/ names = <<>>
    \/ /\ Head(names) \in SeqToSet(namespaces(ns))
       /\ C15_Resolvable(Head(names), Tail(names))

C15_Case ==
    /\ C15_Names # <<>>
    /\ C15_Resolvable(Last(last.cwd), C15_Names)
    /\ \A i \in 1..Len(C15_Names) : C15_Names[i] \notin DOMAIN last.envs[1].vars

\* C15: a statement of namespace names only, each a child of the one before
\* it and the first a child of the namespace the statement is evaluated
\* from, none of them the name of a variable, leaves the navigation path at
\* that namespace's path followed by the names in order, and runs no command.
C15_EntersNamespaces ==
    C15_Case =>
        /\ path = last.cwd \o C15_Names
        /\ AllRuns = <<>>
        /\ outcome.exc = "none"

C15_Witness ==
    /\ C15_Case
    /\ last.text = "a b"
    /\ path = <<Root, "a", "b">>

-----------------------------------------------------------------------------
(* C16 *)

\* the main thread has written part of the output of the statement it is
\* processing and has more of it to write
C16_MainWriting ==
    /\ main_thread.pc = "process"
    /\ 0 < main_thread.left
    /\ main_thread.left < main_thread.total

\* the callback thread has begun the output of a notification and has not
\* finished it
C16_CallbackWriting == callback_thread.pc \in {"output_msg", "restore_readline"}

\* C16 as stated: the output of a notification does not interleave with the
\* output of the statement the main thread is processing: the two threads
\* are never in the middle of their output at the same time
C16_OutputSerialized == ~(C16_MainWriting /\ C16_CallbackWriting)

-----------------------------------------------------------------------------
(* C17 *)

RECURSIVE C17_Open(_, _)
\* the `{` tokens of toks that no `}` has closed: a `}` closes the `{` or
\* the `${` opened last; stack holds the types of the open ones
C17_Open(toks, stack) ==
    IF toks = <<>> THEN Len(SelectSeq(stack, LAMBDA type : type = "LBRACE"))
    ELSE IF Head(toks).type \in {"LBRACE", "COPEN"}
         THEN C17_Open(Tail(toks), Append(stack, Head(toks).type))
    ELSE IF Head(toks).type = "RBRACE" /\ stack # <<>>
         THEN C17_Open(Tail(toks), Front(stack))
    ELSE C17_Open(Tail(toks), stack)

\* C17 as stated: at every end of the input the lexer asks the caller for
\* one more line when a `{` opened before it has not been closed, whatever
\* tokens came before the block, `${...}` expansions and dict literals
\* included, and asks for none when every `{` has been closed
C17_AsksWhileOpen ==
    \A i \in 1..Len(lexeof) :
        lexeof[i].asked <=> C17_Open(SubSeq(lexout, 1, lexeof[i].at), <<>>) > 0

-----------------------------------------------------------------------------
(* C18 *)

C18_Case ==
    /\ last.text = "show | search name == root | sort name"
    /\ last.cwd = <<Root, "u">>
    /\ outcome.exc = "none"

\* C18, as amended: in namespace u, `show | search name == root | sort name`
\* first runs show once, with the predicates collected from search and
\* sort; the right side is then evaluated over the table show returned:
\* search runs once with the table as its input, sort runs once with the
\* value of search as its input, and the value of the pipe, which the
\* driver renders, is the value of sort.
C18_Amended ==
    C18_Case =>
        /\ Len(AllRuns) = 3
        /\ AllRuns[1] = [cmd |-> "show", input |-> Absent]
        /\ AllRuns[2] = [cmd |-> "search",
                         input |-> TableV(<<TupleV("name", "=", StrV("root"))>>,
                                          ("sort" :> <<"name">>))]
        /\ AllRuns[3] = [cmd |-> "sort", input |-> Piped("search", AllRuns[2].input)]
        /\ output = << [msg |-> "format_output",
                        value |-> Piped("sort", AllRuns[3].input)] >>

\* C18 as stated: search and sort only hand over their predicates, neither
\* is run over the table show returned, and the value of the pipe is that
\* table
C18_Original ==
    C18_Case =>
        /\ Runs("search") = <<>>
        /\ Runs("sort") = <<>>
        /\ \A i \in 1..Len(output) :
              output[i].msg = "format_output" => output[i].value.t = "table"

C18_Witness == C18_Case /\ Len(Runs("search")) = 1 /\ Len(Runs("sort")) = 1

-----------------------------------------------------------------------------
(* C19 *)

\* C19 as stated: a `break` in the if block, or in the else block, of an if
\* in the body of a for or while loop ends that loop without an error: the
\* statement after the if is not run (n keeps the value of the first
\* iteration), the loop does not iterate again, and the statement after the
\* loop is run (m is 7).
C19_BreakLeavesIf ==
    last.text \in
        {"n = 0; for (i in [1, 2]) { n = i; if (true) { break }; n = 9 }; m = 7",
         "n = 0; while (true) { n = n + 1; if (false) { n = 8 } else { break }; n = 9 }; m = 7"}
    => /\ outcome.exc = "none"
       /\ envs[1].vars["n"] = Variable(IntV(1))
       /\ "m" \in DOMAIN envs[1].vars
       /\ envs[1].vars["m"] = Variable(IntV(7))

-----------------------------------------------------------------------------
(* C20 *)

\* the bindings of the global environment other than name
C20_Others(vs, name) == [n \in (DOMAIN vs) \ {name} |-> vs[n]]

\* C20 as stated: `return 5` or `break` as a statement of the line, in no
\* function and no loop, is discarded: no error is reported, nothing is
\* rendered for it, the path and the environment are as before, and the
\* statement after it is evaluated (r is bound, and nothing else changes).
C20_SignalDiscarded ==
    last.text \in {"return 5; r = 1", "break; r = 2"} =>
        /\ outcome = [ended |-> "returned", exc |-> "none", handler |-> "none"]
        /\ output = <<>>
        /\ path = last.cwd
        /\ Len(envs) = Len(last.envs)
        /\ C20_Others(envs[1].vars, "r") = C20_Others(last.envs[1].vars, "r")
        /\ "r" \in DOMAIN envs[1].vars
        /\ envs[1].vars["r"] = Variable(IntV(IF last.text = "break; r = 2" THEN 2 ELSE 1))

-----------------------------------------------------------------------------
(* C21 *)

\* the environments the line created in which name is bound to the integer v
C21_Bound(name, v) ==
    {e \in BoundByLine(name) : envs[e].vars[name] = Variable(IntV(v))}

\* C21: a function resolves the names of its body through the environment
\* of its definition and runs every call in an environment of its own.
\* look(), defined at the top and called in a block that binds cs, does not
\* see cs: the read fails and got is bound nowhere.  cap(), defined while c1
\* was 1 and called after `c1 = 2`, returns 2.  The second call of k does not
\* see the binding of seen the first call made: each call has an environment
\* of its own below the global one, and the read of seen fails.
C21_LexicalScope ==
    /\ last.text = "function look() { got = cs }; if (true) { cs = 1; look() }" =>
          /\ outcome.exc = "SyntaxError"
          /\ Cardinality(C21_Bound("cs", 1)) = 1
          /\ BoundByLine("got") = {}
    /\ last.text = "c1 = 1; function cap() { return c1 }; c1 = 2; c2 = cap()" =>
          /\ outcome.exc = "none"
          /\ envs[1].vars["c2"] = Variable(IntV(2))
    /\ last.text = "function k(arg) { if (arg == 2) { old = seen }; seen = arg }; k(1); k(2)" =>
          /\ outcome.exc = "SyntaxError"
          /\ Cardinality(C21_Bound("arg", 1)) = 1
          /\ Cardinality(C21_Bound("arg", 2)) = 1
          /\ \A e \in BoundByLine("arg") : envs[e].outer = 1
          /\ BoundByLine("seen") = C21_Bound("arg", 1)
          /\ BoundByLine("seen") = C21_Bound("seen", 1)
          /\ BoundByLine("old") = {}

C21_Witness ==
    /\ last.text = "function k(arg) { if (arg == 2) { old = seen }; seen = arg }; k(1); k(2)"
    /\ Cardinality(BoundByLine("arg")) = 2
    /\ outcome.exc = "SyntaxError"

-----------------------------------------------------------------------------
(* C22 *)

C22_IsTuple(i) == i.t = "tuple"
C22_IsKeyword(i) == C22_IsTuple(i) /\ i.op = "="
\* the places of the keyword parameters of a name
C22_Places(name) ==
    {j \in 1..Len(sort_in) : C22_IsKeyword(sort_in[j]) /\ sort_in[j].left = name}
C22_Max(places) == CHOOSE j \in places : \A k \in places : k <= j

\* C22: sort_args partitions the parameters: the positional list is the
\* parameters that are no tuples, in their order; the operator list is the
\* tuples whose operator is not '=', in their order; the keyword map has the
\* names of the (name, '=', value) tuples, each with the value of the last
\* tuple of that name; so every parameter is in exactly one of the three.
C22_Partition ==
    sort_out # NoneV =>
        /\ sort_out.positional = SelectSeq(sort_in, LAMBDA i : ~C22_IsTuple(i))
        /\ sort_out.opargs =
              SelectSeq(sort_in, LAMBDA i : C22_IsTuple(i) /\ ~C22_IsKeyword(i))
        /\ DOMAIN sort_out.kwargs =
              {sort_in[j].left : j \in {k \in 1..Len(sort_in) : C22_IsKeyword(sort_in[k])}}
        /\ \A name \in DOMAIN sort_out.kwargs :
              sort_out.kwargs[name] = sort_in[C22_Max(C22_Places(name))].right

\* sort_args has sorted a list with a positional parameter and two keyword
\* parameters of one name
C22_Witness ==
    /\ sort_out # NoneV
    /\ sort_in = << TupleV("arg", "=", IntV(1)), TupleV("arg", "=", IntV(2)),
                    StrV("one") >>
    /\ sort_out.kwargs = ("arg" :> IntV(2))

-----------------------------------------------------------------------------
(* C23 *)

\* the call stacks the line printed with its errors
C23_Reported == SelectSeq(output, LAMBDA o : o.msg = "Call stack")

\* C23 as stated: the call stack is the base entry followed by one entry for
\* each call that is active, with its name and its evaluated arguments.
\* `k(1); k(2)` fails in the body of k(2), k(1) having completed: the stack
\* reported with the error is the base entry and the entry of k(2).
C23_ActiveCallsOnly ==
    last.text = "function k(arg) { if (arg == 2) { old = seen }; seen = arg }; k(1); k(2)" =>
        /\ Len(C23_Reported) = 1
        /\ C23_Reported[1].stack = << [func |-> "<stdin>", args |-> <<>>],
                                     [func |-> "k", args |-> <<IntV(2)>>] >>

-----------------------------------------------------------------------------
(* C24 *)

\* C24 as stated: the navigation path and the previous path are never empty
\* and begin at the root namespace, whatever lines the main thread has
\* processed and whatever on_delete notification has run cd_up meanwhile.
C24_PathsFromRoot ==
    /\ path # <<>> /\ Head(path) = Root
    /\ prev_path # <<>> /\ Head(prev_path) = Root

-----------------------------------------------------------------------------
(* C25 *)

\* C25 as stated: `undef ux`, ux being bound in the current environment,
\* removes the binding and completes normally: no error is reported, ux is
\* unbound afterwards and the statement after it is run (uy is 2).
C25_UndefCompletes ==
    last.text = "ux = 1; undef ux; uy = 2" =>
        /\ outcome.exc = "none"
        /\ "ux" \notin DOMAIN envs[1].vars
        /\ "uy" \in DOMAIN envs[1].vars
        /\ envs[1].vars["uy"] = Variable(IntV(2))

-----------------------------------------------------------------------------
(* C26 *)

\* C26 as stated: when the evaluation of a line's first statement began, the
\* call stack held the base entry only, whatever the lines before it did;
\* so an error in a statement with no call active (`z = y` after h() has
\* returned) prints no call stack.
C26_BaseEntryAtStart ==
    /\ last.depth = 1
    /\ last.text = "function h() { y = 1; w = y }; h(); z = y" =>
          /\ outcome.exc = "SyntaxError"
          /\ C23_Reported = <<>>

-----------------------------------------------------------------------------
(* C27 *)

\* C27 as stated: the right stage of a pipe is evaluated in the environment
\* of the pipe expression: in a block that binds lim to 1, `${lim}` in the
\* parameters of `limit` is 1, so c runs, then limit runs once with the
\* positional argument 1 and the result of c as its input, and no error is
\* reported (unless a command itself failed).
C27_StagesShareScope ==
    /\ last.text = "if (true) { lim = 1; a b c | limit ${lim} }"
    /\ outcome.exc \notin Oracles
    =>
        /\ Len(Runs("c")) = 1
        /\ Len(Runs("limit")) = 1
        /\ Runs("limit")[1].args = <<IntV(1)>>
        /\ outcome.exc = "none"

-----------------------------------------------------------------------------
(* C28 *)

\* the task has ended, its events have all been handled and submit_task has
\* returned: no step of the program can call its callback any more
C28_Settled(id) ==
    /\ submit.pc = "idle"
    /\ dispatcher.tasks[id] \in TerminalStates
    /\ dispatcher.events = <<>>

\* C28 as stated: the callback passed to submit_task with a task is called
\* with the state the task ended in, with tasks_blocking set or not and
\* however the delivery of the events interleaves with the return of the
\* submit call and the registration: once all is settled, it has been called.
C28_CallbackInvoked ==
    \A id \in submit.passed :
        C28_Settled(id) =>
            \E i \in 1..Len(callback_calls) :
                callback_calls[i] = [id |-> id, state |-> dispatcher.tasks[id]]

-----------------------------------------------------------------------------
(* C29 *)

\* C29 as stated: whenever no call of submit_task is in progress,
\* event_divert is False: after the normal return, after a user interrupt
\* and after an error of the `task.submit` call.
C29_DivertOnlyWhileSubmitting == submit.pc = "idle" => event_divert = FALSE

-----------------------------------------------------------------------------
(* C30 *)

\* C30 as stated: with tasks_blocking set, submit_task does not go on waiting
\* once the wait loop has taken from the queue the `task.updated` event with
\* which the task reached FINISHED, FAILED, ABORTED or CANCELLED.
C30_ReturnsOnTerminal ==
    ~(submit.pc = "wait" /\ submit.blocking /\ submit.seen \in TerminalStates)

====
